---- MODULE Spec2Model ----
(***************************************************************************)
(* Model of pdcast's multiple-dispatch table (DispatchDict), the signature *)
(* ordering it uses (supercedes / edge / topological_sort) and the         *)
(* DispatchFunc entry points built on it (decorators/dispatch.py).         *)
(***************************************************************************)
EXTENDS Integers, Sequences, FiniteSets, TLC

\* ------------------------------------------------------------------------
\* Bounds of the model
\* ------------------------------------------------------------------------

\* maxsize of the lookup cache (the cache_size argument of @dispatch)
CacheSize == 1

\* largest number of items of the mapping handed to update()
MaxUpdate == 1

\* largest number of specifiers written in one overload call
MaxWritten == 2

\* deepest nesting of calls of the generic function on one thread
MaxDepth == 3

\* largest number of rows of the vectors handed to the generic function
MaxRows == 3

\* largest number of groups of a composite call that is executed
MaxGroups == 2

\* greatest length of the signatures handed to edge() and sort() over a
\* hierarchy whose contains() is left open
MaxSigLen == 2

\* largest number of signatures sorted over such a hierarchy
MaxSigs == 3

\* ------------------------------------------------------------------------
\* The type hierarchy (external collaborator): type handles and contains()
\* ------------------------------------------------------------------------

\* a specifier that resolves to a CompositeType
CompositeSpec == "composite"

\* Well-formed hierarchy: Number > Int > Int8, Number > Float.
TreeTypes == {"Number", "Int", "Int8", "Float"}

\* Two types that contain each other, and a common subtype of both.
MutualTypes == {"A", "B", "C"}

\* A non-transitive hierarchy: X contains Y, Y contains Z, Z contains X;
\* W is unrelated to the three.
CyclicTypes == {"X", "Y", "Z", "W"}

\* Two positions over Number > Int.
PairTypes == {"Number", "Int"}

\* A partial order with a common subtype: P contains R, Q contains R, and P
\* and Q are unrelated.
DiamondTypes == {"P", "Q", "R"}

\* pairs <<x, y>> such that x.contains(y), besides the reflexive ones
ProperContains ==
    { <<"Number", "Int">>, <<"Number", "Int8">>, <<"Number", "Float">>,
      <<"Int", "Int8">>,
      <<"A", "B">>, <<"B", "A">>, <<"A", "C">>, <<"B", "C">>,
      <<"X", "Y">>, <<"Y", "Z">>, <<"Z", "X">>,
      <<"P", "R">>, <<"Q", "R">> }

\* Types of a hierarchy whose contains() is any relation at all.
FreeTypes == {"K", "L", "M"}

VARIABLE
    hierarchy    \* the pairs <<x, y>> of free types such that x.contains(y)

\* Type.contains(other)
contains(x, y) ==
    IF x \in FreeTypes
    THEN <<x, y>> \in hierarchy
    ELSE x = y \/ <<x, y>> \in ProperContains

\* the signatures of length one over a set of types
Singles(S) == { <<t>> : t \in S }

\* The configurations explored: the types of the registry in use, the number
\* of dispatched arguments, and the signatures overloads are written for (the
\* remaining keys only occur in lookups).
Scenarios ==
    { [types |-> TreeTypes,   nargs |-> 1,
       sigs |-> Singles({"Number", "Int", "Float"})],
      [types |-> MutualTypes, nargs |-> 1,
       sigs |-> Singles({"A", "B"})],
      [types |-> CyclicTypes, nargs |-> 1,
       sigs |-> Singles({"X", "Y", "Z"})],
      [types |-> PairTypes,   nargs |-> 2,
       sigs |-> { <<"Number", "Number">>, <<"Number", "Int">>,
                  <<"Int", "Number">> }],
      [types |-> DiamondTypes, nargs |-> 1,
       sigs |-> Singles({"P", "Q"})] }

\* ------------------------------------------------------------------------
\* Values
\* ------------------------------------------------------------------------

\* the overloaded implementations that can be registered
Impls == {"f1", "f2"}

\* a value that is not callable
NotCallable == "not_callable"

\* the decorated function itself (DispatchFunc.__wrapped__)
Wrapped == "wrapped"

\* absence of a value
None == "None"

\* zip(a, b) stops at the shorter of the two
ZipLen(a, b) == IF Len(a) <= Len(b) THEN Len(a) ELSE Len(b)

\* tuples of length n over the set S
Tuples(S, n) == [1..n -> S]

\* F applied to the value v, which is computed once
With(v, F(_)) == CHOOSE y \in { F(x) : x \in {v} } : TRUE

\* ------------------------------------------------------------------------
\* Key resolution
\* ------------------------------------------------------------------------

\* the names the registry also knows a type by (its string aliases)
Aliases == [a \in {"int", "a", "x"} |->
                IF a = "int" THEN "Int" ELSE IF a = "a" THEN "A" ELSE "X"]

\* resolve_type(spec): the registry yields the type a specifier names (a type
\* names itself, an alias names its type); the composite specifier yields a
\* CompositeType
resolve_type(spec) == IF spec \in DOMAIN Aliases THEN Aliases[spec] ELSE spec

\* isinstance(t, types.CompositeType)
IsComposite(t) == t = CompositeSpec

\* A key that is not a tuple is written <<BareTag, spec>>.
BareTag == "bare"

\* the key made of the single specifier spec, not wrapped in a tuple
Bare(spec) == <<BareTag, spec>>

\* isinstance(key, tuple)
IsTuple(key) == ~(Len(key) = 2 /\ key[1] = BareTag)

\* resolve_key as it would be if composite types were let through
resolve_key_lenient(key) ==
    LET specs == IF ~IsTuple(key) THEN <<key[2]>> ELSE key
    IN  [ok |-> TRUE,
         key |-> [i \in 1..Len(specs) |-> resolve_type(specs[i])]]

\* resolve_key(key): a key that is not a tuple becomes a 1-tuple; every
\* position is resolved in order; TypeError as soon as one position resolves
\* to a composite type
resolve_key(key) ==
    LET specs == IF ~IsTuple(key) THEN <<key[2]>> ELSE key
    IN  IF \E i \in 1..Len(specs) : IsComposite(resolve_type(specs[i]))
        THEN [ok |-> FALSE, key |-> <<>>]
        ELSE [ok |-> TRUE,
              key |-> [i \in 1..Len(specs) |-> resolve_type(specs[i])]]

\* ------------------------------------------------------------------------
\* Signature ordering
\* ------------------------------------------------------------------------

\* supercedes(sig1, sig2): all(x.contains(y) for x, y in zip(sig2, sig1))
supercedes(sig1, sig2) ==
    \A i \in 1..ZipLen(sig2, sig1) : contains(sig2[i], sig1[i])

\* sig[:-1]
DropLast(sig) == SubSeq(sig, 1, Len(sig) - 1)

\* edge as it would be without the test that sig2 does not supercede sig1
edge_loose(sig1, sig2) ==
    \E k \in 1..ZipLen(sig1, sig2) :
        /\ sig1 # <<>>
        /\ sig2 # <<>>
        /\ supercedes(SubSeq(sig1, 1, Len(sig1) - ZipLen(sig1, sig2) + k),
                      SubSeq(sig2, 1, Len(sig2) - ZipLen(sig1, sig2) + k))

\* edge as it would be without backing off the last elements
edge_whole(sig1, sig2) ==
    IF sig1 = <<>> \/ sig2 = <<>>
    THEN FALSE
    ELSE supercedes(sig1, sig2) /\ ~supercedes(sig2, sig1)

\* edge(sig1, sig2): check sig1 before sig2
RECURSIVE edge(_, _)
edge(sig1, sig2) ==
    IF sig1 = <<>> \/ sig2 = <<>>
    THEN FALSE
    ELSE (supercedes(sig1, sig2) /\ ~supercedes(sig2, sig1))
            \/ edge(DropLast(sig1), DropLast(sig2))

\* the elements of a sequence
Range(seq) == { seq[i] : i \in 1..Len(seq) }

\* the inner loop of topological_sort over the dependents of 'node': the
\* edge node -> dependent is removed from the inverted map, the edge count is
\* decremented, and a dependent left without incoming edges is queued
RECURSIVE RemoveEdges(_, _, _, _, _)
RemoveEdges(node, deps, inverted, edge_count, no_incoming) ==
    IF deps = <<>>
    THEN [inverted |-> inverted, edge_count |-> edge_count,
          no_incoming |-> no_incoming]
    ELSE LET dependent == Head(deps)
             inv == [inverted EXCEPT ![dependent] = @ \ {node}]
         IN  RemoveEdges(node, Tail(deps), inv, edge_count - 1,
                         IF inv[dependent] = {}
                         THEN Append(no_incoming, dependent)
                         ELSE no_incoming)

\* the while loop of topological_sort: no_incoming.pop() takes the LAST node
RECURSIVE KahnLoop(_, _, _, _, _)
KahnLoop(deps_of, inverted, edge_count, no_incoming, result) ==
    IF no_incoming = <<>>
    THEN [result |-> result, edge_count |-> edge_count]
    ELSE LET node == no_incoming[Len(no_incoming)]
             rest == SubSeq(no_incoming, 1, Len(no_incoming) - 1)
             r == RemoveEdges(node, deps_of[node], inverted, edge_count, rest)
         IN  KahnLoop(deps_of, r.inverted, r.edge_count, r.no_incoming,
                      Append(result, node))

\* sum of the lengths of the dependency lists of nodes[1..n]
RECURSIVE SumDeps(_, _, _)
SumDeps(nodes, deps_of, n) ==
    IF n = 0 THEN 0 ELSE Len(deps_of[nodes[n]]) + SumDeps(nodes, deps_of, n - 1)

\* topological_sort as it would be with the nodes emitted dependents first
topological_sort_reversed(nodes, deps_of) ==
    LET edge_count == SumDeps(nodes, deps_of, Len(nodes))
        inverted == [n \in Range(nodes) |->
                        { m \in Range(nodes) : n \in Range(deps_of[m]) }]
        no_incoming == SelectSeq(nodes, LAMBDA n : inverted[n] = {})
        r == KahnLoop(deps_of, inverted, edge_count, no_incoming, <<>>)
    IN  [ok |-> r.edge_count = 0,
         result |-> [i \in 1..Len(r.result) |->
                        r.result[Len(r.result) + 1 - i]]]

\* topological_sort as it would be without the check for left-over edges
topological_sort_unchecked(nodes, deps_of) ==
    LET edge_count == SumDeps(nodes, deps_of, Len(nodes))
        inverted == [n \in Range(nodes) |->
                        { m \in Range(nodes) : n \in Range(deps_of[m]) }]
        no_incoming == SelectSeq(nodes, LAMBDA n : inverted[n] = {})
        r == KahnLoop(deps_of, inverted, edge_count, no_incoming, <<>>)
    IN  [ok |-> TRUE,
         result |-> r.result
                     \o SelectSeq(nodes, LAMBDA n : n \notin Range(r.result))]

\* topological_sort as it would be if the edges of an emitted node were not
\* removed
topological_sort_shallow(nodes, deps_of) ==
    LET edge_count == SumDeps(nodes, deps_of, Len(nodes))
        inverted == [n \in Range(nodes) |->
                        { m \in Range(nodes) : n \in Range(deps_of[m]) }]
        no_incoming == SelectSeq(nodes, LAMBDA n : inverted[n] = {})
    IN  [ok |-> edge_count = 0,
         result |-> [i \in 1..Len(no_incoming) |->
                        no_incoming[Len(no_incoming) + 1 - i]]]

\* topological_sort(edges): 'nodes' is the key order of the edges dict and
\* deps_of[n] the list stored under n.  ok = FALSE is the ValueError raised
\* when edges are left over (a cycle).
topological_sort(nodes, deps_of) ==
    LET edge_count == SumDeps(nodes, deps_of, Len(nodes))
        inverted == [n \in Range(nodes) |->
                        { m \in Range(nodes) : n \in Range(deps_of[m]) }]
        no_incoming == SelectSeq(nodes, LAMBDA n : inverted[n] = {})
        r == KahnLoop(deps_of, inverted, edge_count, no_incoming, <<>>)
    IN  [ok |-> r.edge_count = 0, result |-> r.result]

\* list(self): the signatures in iteration order
SigsOf(entries) == [i \in 1..Len(entries) |-> entries[i].sig]

\* position of sig in the entries, 0 when it is not a key
IndexOf(entries, sig) ==
    IF \E i \in 1..Len(entries) : entries[i].sig = sig
    THEN CHOOSE i \in 1..Len(entries) : entries[i].sig = sig
    ELSE 0

\* sort as it would be if the entries were left where they are
sort_keeps_order(entries) == [ok |-> TRUE, entries |-> entries]

\* DispatchDict.sort(): the edges dict holds first the signatures that have an
\* outgoing edge (in iteration order, from the comprehension) and then the
\* others (in iteration order); every signature returned by topological_sort
\* is moved to the end in turn, so the entries end up in the returned order.
\* On a cycle topological_sort raises before any entry is moved and _ordered
\* is not set.
sort(entries) ==
    LET sigs == SigsOf(entries)
        deps_of == [a \in Range(sigs) |-> SelectSeq(sigs, LAMBDA b : edge(a, b))]
        nodes == SelectSeq(sigs, LAMBDA a : deps_of[a] # <<>>)
                    \o SelectSeq(sigs, LAMBDA a : deps_of[a] = <<>>)
        t == topological_sort(nodes, deps_of)
    IN  IF t.ok
        THEN [ok |-> TRUE,
              entries |-> [i \in 1..Len(t.result) |->
                              entries[IndexOf(entries, t.result[i])]]]
        ELSE [ok |-> FALSE, entries |-> entries]

\* ------------------------------------------------------------------------
\* The lookup cache (LRUDict): least recently used first
\* ------------------------------------------------------------------------

\* key in self._cache
CacheHas(cache, key) == \E i \in 1..Len(cache) : cache[i].key = key

\* the value cached under key
CacheValue(cache, key) ==
    cache[CHOOSE i \in 1..Len(cache) : cache[i].key = key].impl

\* self._cache[key]: a hit makes the key the most recently used one
CacheGet(cache, key) ==
    LET i == CHOOSE j \in 1..Len(cache) : cache[j].key = key
    IN  SubSeq(cache, 1, i - 1) \o SubSeq(cache, i + 1, Len(cache))
            \o <<cache[i]>>

\* self._cache[key] = val: the key becomes the most recently used one and the
\* least recently used one is evicted when maxsize is exceeded
CachePut(cache, key, val) ==
    LET others == SelectSeq(cache, LAMBDA c : c.key # key)
        put == Append(others, [key |-> key, impl |-> val])
    IN  IF Len(put) > CacheSize THEN Tail(put) ELSE put

\* ------------------------------------------------------------------------
\* DispatchDict: d = [entries, ordered, cache]
\*   entries : the OrderedDict items, in iteration order
\*   ordered : self._ordered
\*   cache   : self._cache
\* Every operation yields the table it leaves behind (d), the exception it
\* raised if any (out), and the value it returned (impl).
\* ------------------------------------------------------------------------

\* super().__contains__(key)
HasKey(entries, key) == \E i \in 1..Len(entries) : entries[i].sig = key

\* super().__getitem__(key)
ValueOf(entries, key) == entries[IndexOf(entries, key)].impl

\* all(x.contains(y) for x, y in zip(sig, key))
Matches(sig, key) == \A i \in 1..ZipLen(sig, key) : contains(sig[i], key[i])

\* for sig, val in self.items(): the first entry that fully contains key
\* (0 when there is none)
FirstMatch(entries, key) ==
    IF \E i \in 1..Len(entries) : Matches(entries[i].sig, key)
    THEN CHOOSE i \in 1..Len(entries) :
            /\ Matches(entries[i].sig, key)
            /\ \A j \in 1..(i - 1) : ~Matches(entries[j].sig, key)
    ELSE 0

\* the part of __getitem__ that follows the sort, on the sorted entries s and
\* the cache left by the sort
Search(s, cache, key) ==
    IF CacheHas(cache, key)
    THEN \* check for cached result
         [d |-> [entries |-> s, ordered |-> TRUE,
                 cache |-> CacheGet(cache, key)],
          out |-> "ok", impl |-> CacheValue(cache, key), path |-> "cached"]
    ELSE \* search for first (sorted) match that fully contains key
         With(FirstMatch(s, key), LAMBDA m :
            IF m # 0
            THEN [d |-> [entries |-> s, ordered |-> TRUE,
                         cache |-> CachePut(cache, key, s[m].impl)],
                  out |-> "ok", impl |-> s[m].impl, path |-> "scan"]
            ELSE [d |-> [entries |-> s, ordered |-> TRUE, cache |-> cache],
                  out |-> "KeyError", impl |-> None, path |-> "nomatch"])

\* the lookup as it would be with the cache consulted before the exact match
Lookup_cache_first(d, key) ==
    IF CacheHas(d.cache, key)
    THEN [d |-> d, out |-> "ok", impl |-> CacheValue(d.cache, key),
          path |-> "cached"]
    ELSE IF HasKey(d.entries, key)
    THEN [d |-> d, out |-> "ok", impl |-> ValueOf(d.entries, key),
          path |-> "exact"]
    ELSE IF d.ordered
    THEN Search(d.entries, d.cache, key)
    ELSE With(sort(d.entries), LAMBDA s :
            IF s.ok
            THEN Search(s.entries, <<>>, key)
            ELSE [d |-> [entries |-> d.entries, ordered |-> FALSE,
                         cache |-> <<>>],
                  out |-> "ValueError", impl |-> None, path |-> "cyclic"])

\* the lookup as it would be if a sort that raises left the table marked as
\* ordered
Lookup_marks_ordered(d, key) ==
    IF HasKey(d.entries, key)
    THEN [d |-> d, out |-> "ok", impl |-> ValueOf(d.entries, key),
          path |-> "exact"]
    ELSE IF d.ordered
    THEN Search(d.entries, d.cache, key)
    ELSE With(sort(d.entries), LAMBDA s :
            IF s.ok
            THEN Search(s.entries, <<>>, key)
            ELSE [d |-> [entries |-> d.entries, ordered |-> TRUE,
                         cache |-> <<>>],
                  out |-> "ValueError", impl |-> None, path |-> "cyclic"])

\* the part of __getitem__ that follows key resolution
Lookup(d, key) ==
    IF HasKey(d.entries, key)
    THEN \* trivial case: key has exact match
         [d |-> d, out |-> "ok", impl |-> ValueOf(d.entries, key),
          path |-> "exact"]
    ELSE IF d.ordered
    THEN Search(d.entries, d.cache, key)
    ELSE \* the cache is cleared, then sort() is called; when it raises,
         \* _ordered stays False
         With(sort(d.entries), LAMBDA s :
            IF s.ok
            THEN Search(s.entries, <<>>, key)
            ELSE [d |-> [entries |-> d.entries, ordered |-> FALSE,
                         cache |-> <<>>],
                  out |-> "ValueError", impl |-> None, path |-> "cyclic"])

\* the lookup as it would be if the table were sorted before the exact match
\* is tried
getitem_sort_first(d, key) ==
    With(resolve_key(key), LAMBDA k :
        IF ~k.ok
        THEN [d |-> d, out |-> "TypeError", impl |-> None, path |-> "invalid"]
        ELSE IF d.ordered
        THEN Lookup(d, k.key)
        ELSE With(sort(d.entries), LAMBDA s :
                IF s.ok
                THEN Lookup([entries |-> s.entries, ordered |-> TRUE,
                             cache |-> <<>>], k.key)
                ELSE [d |-> [entries |-> d.entries, ordered |-> FALSE,
                             cache |-> <<>>],
                      out |-> "ValueError", impl |-> None,
                      path |-> "cyclic"]))

\* DispatchDict.__getitem__(key)
getitem(d, key) ==
    With(resolve_key(key), LAMBDA k :
        IF ~k.ok
        THEN [d |-> d, out |-> "TypeError", impl |-> None, path |-> "invalid"]
        ELSE Lookup(d, k.key))

\* get as it would be if a key that is not found were registered with the
\* default, as setdefault does
get_inserts(d, key, default) ==
    With(getitem(d, key), LAMBDA g :
        IF g.out = "KeyError"
        THEN [d |-> [entries |-> Append(g.d.entries,
                                        [sig |-> key, impl |-> default]),
                     ordered |-> FALSE, cache |-> g.d.cache],
              out |-> "ok", impl |-> default, path |-> "default"]
        ELSE g)

\* DispatchDict.get(key, default): self[key], the default on a KeyError
get(d, key, default) ==
    With(getitem(d, key), LAMBDA g :
        IF g.out = "KeyError"
        THEN [d |-> g.d, out |-> "ok", impl |-> default, path |-> "default"]
        ELSE g)

\* DispatchDict.__contains__(key): self[key] is looked up; impl tells the
\* answer
dict_contains(d, key) ==
    With(getitem(d, key), LAMBDA g :
        IF g.out = "KeyError"
        THEN [d |-> g.d, out |-> "ok", impl |-> FALSE, path |-> g.path]
        ELSE IF g.out = "ok"
        THEN [d |-> g.d, out |-> "ok", impl |-> TRUE, path |-> g.path]
        ELSE [d |-> g.d, out |-> g.out, impl |-> FALSE, path |-> g.path])

\* callable(call)
Callable(call) == call \in Impls

\* the dict assignment as it would be if an overwritten key moved to the end
DictSet_move_to_end(entries, key, value) ==
    Append(SelectSeq(entries, LAMBDA e : e.sig # key),
           [sig |-> key, impl |-> value])

\* super().__setitem__(key, value): an existing key keeps its position, a new
\* key is appended
DictSet(entries, key, value) ==
    IF HasKey(entries, key)
    THEN [entries EXCEPT ![IndexOf(entries, key)].impl = value]
    ELSE Append(entries, [sig |-> key, impl |-> value])

\* DispatchDict.__setitem__(key, value)
setitem(d, key, value) ==
    LET k == resolve_key(key)
    IN  IF ~k.ok \/ ~Callable(value)
        THEN [d |-> d, out |-> "TypeError", impl |-> None]
        ELSE [d |-> [entries |-> DictSet(d.entries, k.key, value),
                     ordered |-> FALSE, cache |-> d.cache],
              out |-> "ok", impl |-> None]

\* super().__delitem__(key)
DictDel(entries, key) == SelectSeq(entries, LAMBDA e : e.sig # key)

\* the deletion as it would be with the lookup's fallback to a containing
\* signature
delitem_first_match(d, key) ==
    LET k == resolve_key(key)
    IN  IF ~k.ok
        THEN [d |-> d, out |-> "TypeError", impl |-> None]
        ELSE IF FirstMatch(d.entries, k.key) # 0
        THEN [d |-> [d EXCEPT !.entries =
                        DictDel(d.entries,
                                d.entries[FirstMatch(d.entries, k.key)].sig)],
              out |-> "ok", impl |-> None]
        ELSE [d |-> d, out |-> "KeyError", impl |-> None]

\* DispatchDict.__delitem__(key): the entry is deleted and nothing else is
\* touched (_ordered and _cache are left as they are)
delitem(d, key) ==
    LET k == resolve_key(key)
    IN  IF ~k.ok
        THEN [d |-> d, out |-> "TypeError", impl |-> None]
        ELSE IF HasKey(d.entries, k.key)
        THEN [d |-> [d EXCEPT !.entries = DictDel(d.entries, k.key)],
              out |-> "ok", impl |-> None]
        ELSE [d |-> d, out |-> "KeyError", impl |-> None]

\* the no_default sentinel of pop()
NoDefault == "no_default"

\* the except KeyError branch of pop()
PopDefault(d, default) ==
    IF default = NoDefault
    THEN [d |-> d, out |-> "KeyError", impl |-> None]
    ELSE [d |-> d, out |-> "ok", impl |-> default]

\* the part of pop() that follows the lookup g of the resolved key
PopFound(g, key, default) ==
    IF g.out = "ok"
    THEN With(delitem(g.d, key), LAMBDA r :
            IF r.out = "ok"
            THEN [d |-> r.d, out |-> "ok", impl |-> g.impl]
            ELSE PopDefault(r.d, default))
    ELSE IF g.out = "KeyError"
    THEN PopDefault(g.d, default)
    ELSE [d |-> g.d, out |-> g.out, impl |-> None]

\* pop as it would be if it removed the entry that the lookup has found
pop_matched(d, key, default) ==
    With(getitem(d, key), LAMBDA g :
        IF g.out = "ok"
        THEN [d |-> [g.d EXCEPT !.entries =
                        SelectSeq(g.d.entries, LAMBDA e :
                            FirstMatch(g.d.entries, key) = 0
                                \/ e # g.d.entries[FirstMatch(g.d.entries,
                                                              key)])],
              out |-> "ok", impl |-> g.impl]
        ELSE IF g.out = "KeyError"
        THEN PopDefault(g.d, default)
        ELSE [d |-> g.d, out |-> g.out, impl |-> None])

\* DispatchDict.pop(key, default): self[key] is the full lookup (it may sort
\* and cache), del self[key] needs an exact match
pop(d, key, default) ==
    With(resolve_key(key), LAMBDA k :
        IF ~k.ok
        THEN [d |-> d, out |-> "TypeError", impl |-> None]
        ELSE With(getitem(d, k.key), LAMBDA g : PopFound(g, k.key, default)))

\* the part of setdefault() that follows the lookup g of the resolved key
SetDefaultFound(g, key, default) ==
    IF g.out = "ok"
    THEN [d |-> g.d, out |-> "ok", impl |-> g.impl, path |-> "found"]
    ELSE IF g.out = "KeyError"
    THEN With(setitem(g.d, key, default), LAMBDA r :
            IF r.out = "ok"
            THEN [d |-> r.d, out |-> "ok", impl |-> default,
                  path |-> "inserted"]
            ELSE [d |-> r.d, out |-> r.out, impl |-> None,
                  path |-> "rejected"])
    ELSE [d |-> g.d, out |-> g.out, impl |-> None, path |-> g.path]

\* DispatchDict.setdefault(key, default): path tells whether self[key] was
\* found or the default was inserted
setdefault(d, key, default) ==
    With(resolve_key(key), LAMBDA k :
        IF ~k.ok
        THEN [d |-> d, out |-> "TypeError", impl |-> None, path |-> "invalid"]
        ELSE With(getitem(d, k.key),
                  LAMBDA g : SetDefaultFound(g, k.key, default)))

\* for key, val in items: self[key] = val, stopping at the first exception
RECURSIVE SetAll(_, _)
SetAll(d, items) ==
    IF items = <<>>
    THEN [d |-> d, out |-> "ok", impl |-> None]
    ELSE LET r == setitem(d, Head(items).sig, Head(items).impl)
         IN  IF r.out = "ok" THEN SetAll(r.d, Tail(items)) ELSE r

\* DispatchDict(mapping)
NewDispatchDict(mapping) ==
    SetAll([entries |-> <<>>, ordered |-> FALSE, cache |-> <<>>], mapping)

\* DispatchDict.update(other): other is first made a DispatchDict of its own
\* (keys resolved, values validated), whose items are then set one by one
update(d, other) ==
    LET tmp == NewDispatchDict(other)
    IN  IF tmp.out # "ok"
        THEN [d |-> d, out |-> tmp.out, impl |-> None]
        ELSE LET r == SetAll(d, tmp.d.entries)
             IN  [d |-> [r.d EXCEPT !.ordered = FALSE], out |-> "ok",
                  impl |-> None]

\* ------------------------------------------------------------------------
\* DispatchFunc and DirectDispatch
\* ------------------------------------------------------------------------

\* DispatchFunc.__getitem__(key): a KeyError of the table lookup, and only
\* that, is answered with the decorated function itself
func_getitem(d, key) ==
    With(getitem(d, key), LAMBDA g :
        IF g.out = "KeyError"
        THEN [d |-> g.d, out |-> "ok", impl |-> Wrapped, path |-> "fallback"]
        ELSE g)

\* DispatchFunc.__delitem__(key)
func_delitem(d, key) == delitem(d, key)

\* the call as it would be with the implementation called inside the try
\* block of the lookup: its KeyError is answered with the fallback
execute_catch_all(d, key, raises) ==
    With(func_getitem(d, key), LAMBDA f :
        IF f.out # "ok"
        THEN [d |-> f.d, out |-> f.out, impl |-> None, path |-> f.path,
              called |-> <<>>]
        ELSE IF raises
        THEN [d |-> f.d, out |-> "ok", impl |-> Wrapped, path |-> "fallback",
              called |-> <<f.impl, Wrapped>>]
        ELSE [d |-> f.d, out |-> "ok", impl |-> f.impl, path |-> f.path,
              called |-> <<f.impl>>])

\* DirectDispatch.execute(bound): self.func[self.key] is looked up and the
\* implementation found is called outside of any try block; 'raises' tells
\* whether the implementation called raises (a KeyError) or returns
execute(d, key, raises) ==
    With(func_getitem(d, key), LAMBDA f :
        IF f.out # "ok"
        THEN [d |-> f.d, out |-> f.out, impl |-> None, path |-> f.path,
              called |-> <<>>]
        ELSE [d |-> f.d, out |-> IF raises THEN "KeyError" ELSE "ok",
              impl |-> f.impl, path |-> f.path, called |-> <<f.impl>>])

\* ------------------------------------------------------------------------
\* DispatchFunc: construction and overload registration.  An argument list is
\* a sequence of parameter names; the specifiers written for one argument are
\* a sequence of types (the iteration order of the composite they resolve to).
\* ------------------------------------------------------------------------

\* inspect.signature(func).parameters of the decorated function
WrappedParams == <<"x", "y">>

\* a DispatchFunc that could not be constructed
NoFunc == [made |-> FALSE, args |-> <<>>]

\* DispatchFunc.__init__(func, args, ...): args must name at least one
\* argument, and only parameters of func
init(args) ==
    IF args = <<>>
    THEN [func |-> NoFunc, out |-> "TypeError", path |-> "noargs"]
    ELSE IF \E i \in 1..Len(args) : args[i] \notin Range(WrappedParams)
    THEN [func |-> NoFunc, out |-> "TypeError", path |-> "badargs"]
    ELSE [func |-> [made |-> TRUE, args |-> args], out |-> "ok",
          path |-> "made"]

\* position of name in the parameter list params
ParamIndex(params, name) == CHOOSE i \in 1..Len(params) : params[i] = name

\* sig.bind_partial(*args, **kwargs).arguments: positional values go to the
\* parameters in order, keyword values to the parameter of that name;
\* TypeError when there are too many positional values, when a keyword names
\* no parameter, or when a parameter gets two values
bind_partial(params, pos, kw) ==
    IF \/ Len(pos) > Len(params)
       \/ \E n \in DOMAIN kw : n \notin Range(params)
       \/ \E i \in 1..Len(pos) : params[i] \in DOMAIN kw
    THEN [ok |-> FALSE, arguments |-> <<>>]
    ELSE [ok |-> TRUE,
          arguments |->
            [n \in { params[i] : i \in 1..Len(pos) } \cup DOMAIN kw |->
                IF n \in DOMAIN kw THEN kw[n]
                ELSE pos[ParamIndex(params, n)]]]

\* resolve_type([spec]): the composite of the types the specifiers name, in
\* its iteration order
resolve_composite(specs) == [i \in 1..Len(specs) |-> resolve_type(specs[i])]

\* the product as it would be if the positions were paired up, not crossed
product_zip(paths) ==
    IF paths = <<>> THEN << <<>> >>
    ELSE LET n == CHOOSE m \in 0..Len(paths[1]) :
                    /\ \A i \in 1..Len(paths) : m <= Len(paths[i])
                    /\ \E i \in 1..Len(paths) : m = Len(paths[i])
         IN  [k \in 1..n |-> [i \in 1..Len(paths) |-> paths[i][k]]]

\* list(itertools.product(*paths)): every combination of one type per
\* position, the last position varying fastest
RECURSIVE product(_)
product(paths) ==
    IF paths = <<>> THEN << <<>> >>
    ELSE LET first == Head(paths)
             rest == product(Tail(paths))
         IN  [k \in 1..(Len(first) * Len(rest)) |->
                <<first[((k - 1) \div Len(rest)) + 1]>>
                    \o rest[((k - 1) % Len(rest)) + 1]]

\* an overload call that raised: the table is as it was
Refused(d, path) == [d |-> d, out |-> "TypeError", path |-> path, paths |-> <<>>]

\* the tail of overload.implementation once the specifiers are bound: one
\* path per dispatched argument, crossed, and every combination set in turn
Register(d, args, arguments, call) ==
    With(product([i \in 1..Len(args) |-> resolve_composite(arguments[args[i]])]),
         LAMBDA paths :
            With(SetAll(d, [i \in 1..Len(paths) |->
                                [sig |-> paths[i], impl |-> call]]),
                 LAMBDA r : [d |-> r.d, out |-> r.out, path |-> "registered",
                             paths |-> paths]))

\* overload as it would be if the combinations of the dispatched arguments
\* were registered before the left-over specifiers are looked at
overload_unchecked(d, args, params, pos, kw, call) ==
    With(bind_partial(params, pos, kw), LAMBDA b :
        IF ~b.ok
        THEN Refused(d, "unbound")
        ELSE IF \E i \in 1..Len(args) : args[i] \notin DOMAIN b.arguments
        THEN Refused(d, "nosignature")
        ELSE With(Register(d, args, b.arguments, call), LAMBDA r :
                IF DOMAIN b.arguments \ Range(args) # {}
                THEN [r EXCEPT !.out = "TypeError", !.path = "nondispatched"]
                ELSE r))

\* DispatchFunc.overload(*pos, **kw)(call), where params are the parameters
\* of call: call must accept every dispatched argument; the specifiers are
\* bound to the parameters of call; every dispatched argument must have got
\* specifiers and no other parameter may; then the combinations are set
overload(d, args, params, pos, kw, call) ==
    IF \E i \in 1..Len(args) : args[i] \notin Range(params)
    THEN Refused(d, "unaccepted")
    ELSE With(bind_partial(params, pos, kw), LAMBDA b :
            IF ~b.ok
            THEN Refused(d, "unbound")
            ELSE IF \E i \in 1..Len(args) : args[i] \notin DOMAIN b.arguments
            THEN Refused(d, "nosignature")
            ELSE IF DOMAIN b.arguments \ Range(args) # {}
            THEN Refused(d, "nondispatched")
            ELSE Register(d, args, b.arguments, call))

\* ------------------------------------------------------------------------
\* DispatchFunc.__call__: the recursion marker self._flags.recursive, kept in
\* a threading.local(), and the two paths of a call
\* ------------------------------------------------------------------------

\* the threads calling the generic function
Threads == {"T1", "T2"}

\* threading.local() as it would be if it were one object shared by all
\* threads
Slot_shared(t) == "T1"

\* threading.local(): the attributes a thread sets are its own
Slot(t) == t

\* getattr(self._flags, "recursive", False) as thread t sees it
recursive(flags, t) == flags[Slot(t)]

\* the head of __call__ on thread t: a call made while the marker is set
\* takes the DirectDispatch fastpath; otherwise the marker is set and the
\* call is an outermost one (vectors normalized, result finalized)
enter(flags, t) ==
    IF recursive(flags, t)
    THEN [flags |-> flags, path |-> "direct"]
    ELSE [flags |-> [flags EXCEPT ![Slot(t)] = TRUE], path |-> "outer"]

\* the end of a call as it would be if the marker were reset by a statement
\* after the call of the strategy, not by a finally clause
leave_on_return_only(flags, t, path, how) ==
    IF path = "outer" /\ how = "return"
    THEN [flags EXCEPT ![Slot(t)] = FALSE]
    ELSE flags

\* the end of a call on thread t, by return or by exception: the finally
\* clause of an outermost call resets the marker; the fastpath leaves it
leave(flags, t, path, how) ==
    IF path = "outer"
    THEN [flags EXCEPT ![Slot(t)] = FALSE]
    ELSE flags

\* what a call hands back when the implementation impl it dispatched to has
\* returned: DirectDispatch.finalize returns the result as it is, the
\* strategy of an outermost call finalizes it; None when an exception
\* propagates
handback(path, how, impl) ==
    IF how = "raise"
    THEN [by |-> None, finalized |-> FALSE]
    ELSE [by |-> impl, finalized |-> path = "outer"]

\* ------------------------------------------------------------------------
\* The outermost call on vectors: _build_strategy, and the execute and
\* finalize of the homogenous strategy.  A dispatched argument is a vector
\* (one cell per row: the type of the element, or NA) or a scalar (one
\* cell).  An index is its labels in row order, and whether it is a
\* pd.RangeIndex.  The result of an implementation is the labels of the rows
\* it returns, in the order it returns them: the value returned j-th is
\* called j.
\* ------------------------------------------------------------------------

\* a missing value
NA == "NA"

\* the positions 1..n in order
Positions(n) == [i \in 1..n |-> i]

\* the vectors among the dispatched arguments (values that have a shape)
Vectors(args) == SelectSeq(args, LAMBDA v : v.vector)

\* frame = pd.DataFrame(vectors) with its index normalized: the labels stay
\* when the index is a pd.RangeIndex, and become 0..n-1 otherwise
FrameLabels(index) ==
    IF index.range THEN index.labels
    ELSE [i \in 1..Len(index.labels) |-> i - 1]

\* frame.dropna(how="any"): the positions of the rows without a missing value
\* in any column
dropna(vectors, n) ==
    SelectSeq(Positions(n),
              LAMBDA q : \A c \in 1..Len(vectors) : vectors[c].cells[q] # NA)

\* detect_type of one column: the types of its elements in the rows kept
detect_type(column, kept) == { column.cells[kept[j]] : j \in 1..Len(kept) }

\* isinstance(v, types.CompositeType): more than one type was detected
IsCompositeType(detected) == Cardinality(detected) > 1

\* the test of the composite case as it would be if every column had to be
\* composite
composite_case_all(detected) ==
    \A c \in 1..Len(detected) : IsCompositeType(detected[c])

\* any(isinstance(v, types.CompositeType) for v in detected.values())
composite_case(detected) ==
    \E c \in 1..Len(detected) : IsCompositeType(detected[c])

\* the row of the type frame for the j-th row kept: the type of the element
\* in a composite column (CompositeType.index), the detected type elsewhere
TypeRow(vectors, detected, kept, j) ==
    [c \in 1..Len(vectors) |->
        IF IsCompositeType(detected[c]) THEN vectors[c].cells[kept[j]]
        ELSE CHOOSE t \in detected[c] : TRUE]

\* the grouping as it would be if only the first column were grouped by
groupby_first_column(keys) ==
    LET firsts == SelectSeq(Positions(Len(keys)),
                            LAMBDA j : \A i \in 1..(j - 1) :
                                            keys[i][1] # keys[j][1])
    IN  [g \in 1..Len(firsts) |->
            [key |-> keys[firsts[g]],
             rows |-> SelectSeq([j \in 1..Len(keys) |-> j - 1],
                                LAMBDA r : keys[r + 1][1]
                                                = keys[firsts[g]][1])]]

\* type_frame.groupby(list(detected), sort=False).groups: one group per
\* distinct row of the type frame, in the order first seen, holding the
\* (0-based) positions of its rows
groupby(keys) ==
    LET firsts == SelectSeq(Positions(Len(keys)),
                            LAMBDA j : \A i \in 1..(j - 1) : keys[i] # keys[j])
    IN  [g \in 1..Len(firsts) |->
            [key |-> keys[firsts[g]],
             rows |-> SelectSeq([j \in 1..Len(keys) |-> j - 1],
                                LAMBDA r : keys[r + 1] = keys[firsts[g]])]]

\* DispatchFunc._build_strategy(dispatch_args) on vectors of index 'index':
\* rows with missing values are dropped when drop_na is set, the type of
\* each column is detected, and the strategy is chosen; hasnans stays None
\* (false) without drop_na
build_strategy(args, index, drop_na) ==
    LET vectors == Vectors(args)
        n == Len(index.labels)
        kept == IF drop_na THEN dropna(vectors, n) ELSE Positions(n)
        detected == [c \in 1..Len(vectors) |-> detect_type(vectors[c], kept)]
    IN  [kind |-> IF composite_case(detected) THEN "composite"
                  ELSE "homogenous",
         index |-> [j \in 1..Len(kept) |-> FrameLabels(index)[kept[j]]],
         original_index |-> index,
         hasnans |-> drop_na /\ Len(kept) < n,
         key |-> [a \in 1..Len(args) |->
                    IF args[a].vector THEN detect_type(args[a], kept)
                    ELSE {args[a].cells[1]}],
         groups |-> IF composite_case(detected)
                    THEN groupby([j \in 1..Len(kept) |->
                                    TypeRow(vectors, detected, kept, j)])
                    ELSE <<>>]

\* the strategy before any call
NoStrategy ==
    [kind |-> "", index |-> <<>>,
     original_index |-> [range |-> TRUE, labels |-> <<>>],
     hasnans |-> FALSE, key |-> <<>>, groups |-> <<>>]

\* DirectDispatch.key of a homogenous strategy: the one type of each argument
DirectKey(strategy) ==
    [a \in 1..Len(strategy.key) |-> CHOOSE t \in strategy.key[a] : TRUE]

\* no result
NoResult == [kind |-> "", labels |-> <<>>, otype |-> None]

\* output_type.make_nullable(): the nullable variant of a type
make_nullable(t) == [type |-> t, nullable |-> TRUE]

\* the dtype of the result as the implementation returned it
plain(t) == [type |-> t, nullable |-> FALSE]

\* replace_na(series, dtype, index, na_value) for index = RangeIndex(0, n):
\* a series of n missing values in which result[series.index] = series sets
\* the values returned at their labels (the last one, for a label present
\* more than once); a label that is not in 0..n-1 is a KeyError
replace_na(labels, dtype, n) ==
    IF \E j \in 1..Len(labels) : labels[j] \notin 0..(n - 1)
    THEN [out |-> "KeyError", rows |-> <<>>]
    ELSE [out |-> "ok",
          rows |-> [q \in 1..n |->
                        IF \E j \in 1..Len(labels) : labels[j] = q - 1
                        THEN [val |-> CHOOSE j \in 1..Len(labels) :
                                        /\ labels[j] = q - 1
                                        /\ \A i \in (j + 1)..Len(labels) :
                                                labels[i] # q - 1,
                              na |-> FALSE, dtype |-> dtype]
                        ELSE [val |-> 0, na |-> TRUE, dtype |-> dtype]]]

\* the result as it would be if it kept the labels 0, 1, ... that the
\* filled-in rows have
set_index_positions(filled, index) ==
    IF filled.out # "ok"
    THEN [out |-> filled.out, kind |-> "", rows |-> <<>>]
    ELSE IF Len(filled.rows) # Len(index.labels)
    THEN [out |-> "ValueError", kind |-> "", rows |-> <<>>]
    ELSE [out |-> "ok", kind |-> "series",
          rows |-> [q \in 1..Len(filled.rows) |->
                        [label |-> q - 1,
                         val |-> filled.rows[q].val,
                         na |-> filled.rows[q].na,
                         dtype |-> filled.rows[q].dtype]]]

\* result.index = self.original_index: the labels are set by position; a
\* length mismatch is a ValueError
set_index(filled, index) ==
    IF filled.out # "ok"
    THEN [out |-> filled.out, kind |-> "", rows |-> <<>>]
    ELSE IF Len(filled.rows) # Len(index.labels)
    THEN [out |-> "ValueError", kind |-> "", rows |-> <<>>]
    ELSE [out |-> "ok", kind |-> "series",
          rows |-> [q \in 1..Len(filled.rows) |->
                        [label |-> index.labels[q],
                         val |-> filled.rows[q].val,
                         na |-> filled.rows[q].na,
                         dtype |-> filled.rows[q].dtype]]]

\* nothing finalized
NoFinal == [out |-> "", kind |-> "", rows |-> <<>>, warned |-> FALSE]

\* HomogenousDispatch.finalize(result): a Series is a transform; labels
\* outside of the frame's index are warned about and set hasnans; missing
\* rows are filled in when hasnans is set or rows are lacking; the original
\* index is put back.  Anything else is returned as it is.
finalize(strategy, result) ==
    IF result.kind # "series"
    THEN [out |-> "ok", kind |-> result.kind, rows |-> <<>>,
          warned |-> FALSE]
    ELSE LET foreign == \E j \in 1..Len(result.labels) :
                            result.labels[j] \notin Range(strategy.index)
             hasnans == strategy.hasnans \/ foreign
             filled ==
                IF hasnans \/ Len(result.labels) < Len(strategy.index)
                THEN replace_na(result.labels, make_nullable(result.otype),
                                Len(strategy.original_index.labels))
                ELSE [out |-> "ok",
                      rows |-> [j \in 1..Len(result.labels) |->
                                    [val |-> j, na |-> FALSE,
                                     dtype |-> plain(result.otype)]]]
             final == set_index(filled, strategy.original_index)
         IN  [out |-> final.out, kind |-> final.kind, rows |-> final.rows,
              warned |-> foreign]

\* ------------------------------------------------------------------------
\* The composite strategy: execute calls the implementation of every group,
\* finalize merges what they return.  The value a group g returned j-th is
\* called <<g, j>>.
\* ------------------------------------------------------------------------

\* the types of the results of the implementations: their smallest and
\* largest value and the root of their family
OutTypes ==
    [int8 |-> [min |-> -128, max |-> 127, root |-> "integer"],
     uint8 |-> [min |-> 0, max |-> 255, root |-> "integer"],
     int16 |-> [min |-> -32768, max |-> 32767, root |-> "integer"],
     bool |-> [min |-> 0, max |-> 1, root |-> "boolean"]]

\* the dtype of an untyped container
ObjectType == [type |-> "object", nullable |-> TRUE]

\* the key under which the implementation of group g is looked up: the types
\* of the group for the vectors, its own type for a scalar
GroupKey(args, group) ==
    [a \in 1..Len(args) |->
        IF args[a].vector
        THEN group.key[Cardinality({ b \in 1..a : args[b].vector })]
        ELSE args[a].cells[1]]

\* the labels of the rows of a group: group = self.frame.iloc[indices]
GroupIndex(strategy, group) ==
    [j \in 1..Len(group.rows) |-> strategy.index[group.rows[j] + 1]]

\* the lookups of CompositeDispatch.execute, group after group, up to the
\* first one that raises: the table they leave and the implementations found
RECURSIVE lookups(_, _, _, _)
lookups(d, args, groups, g) ==
    IF g = 0
    THEN [d |-> d, out |-> "ok", impls |-> <<>>]
    ELSE With(lookups(d, args, groups, g - 1), LAMBDA before :
            IF before.out # "ok"
            THEN before
            ELSE With(func_getitem(before.d, GroupKey(args, groups[g])),
                      LAMBDA r :
                        [d |-> r.d, out |-> r.out,
                         impls |-> IF r.out = "ok"
                                   THEN Append(before.impls, r.impl)
                                   ELSE before.impls]))

\* pd.concat(computed) of the results of groups 1..g: the labels and the
\* values in the order of the groups
RECURSIVE concat_to(_, _)
concat_to(computed, g) ==
    IF g = 0
    THEN [labels |-> <<>>, vals |-> <<>>]
    ELSE With(concat_to(computed, g - 1), LAMBDA before :
            [labels |-> before.labels \o computed[g].labels,
             vals |-> before.vals
                        \o [j \in 1..Len(computed[g].labels) |-> <<g, j>>]])

\* pd.concat(computed)
concat(computed) == concat_to(computed, Len(computed))

\* CompositeDispatch._check_indices: a warning when the indices of two
\* results overlap; a warning and hasnans when a label is not in the frame
check_indices(strategy, computed) ==
    [collision |->
        \E g, h \in 1..Len(computed) :
            /\ g < h
            /\ Range(computed[g].labels) \cap Range(computed[h].labels) # {},
     mismatch |->
        \E g \in 1..Len(computed) :
            ~(Range(computed[g].labels) \subseteq Range(strategy.index))]

\* typ.max - typ.min
Span(t) == OutTypes[t].max - OutTypes[t].min

\* abs(typ.min + typ.max)
Offcenter(t) ==
    IF OutTypes[t].min + OutTypes[t].max < 0
    THEN 0 - (OutTypes[t].min + OutTypes[t].max)
    ELSE OutTypes[t].min + OutTypes[t].max

\* the candidates as they would be if all observed types were candidates
Candidates_all(observed) ==
    CHOOSE c \in [1..Cardinality(observed) -> observed] :
        /\ \A i, j \in DOMAIN c : i # j => c[i] # c[j]
        /\ \A i, j \in DOMAIN c : i < j => Offcenter(c[i]) <= Offcenter(c[j])

\* the candidates of _standardize_same_family: the observed types of the
\* largest span, sorted by abs(min + max)
Candidates(observed) ==
    LET widest == { t \in observed :
                        \A u \in observed : Span(u) <= Span(t) }
    IN  CHOOSE c \in [1..Cardinality(widest) -> widest] :
            /\ \A i, j \in DOMAIN c : i # j => c[i] # c[j]
            /\ \A i, j \in DOMAIN c :
                    i < j => Offcenter(c[i]) <= Offcenter(c[j])

\* CompositeDispatch._standardize_same_family(computed, observed), the cast
\* to the types in 'fails' raising for some result: the candidates are tried
\* in order, the first cast that succeeds for every result is kept
standardize_same_family(computed, observed, fails) ==
    LET candidates == Candidates(observed)
        good == { i \in 1..Len(candidates) : candidates[i] \notin fails }
    IN  IF good = {}
        THEN [computed |-> computed, observed |-> observed,
              tried |-> candidates]
        ELSE LET first == CHOOSE i \in good : \A k \in good : i <= k
             IN  [computed |-> [g \in 1..Len(computed) |->
                                    [computed[g] EXCEPT
                                        !.otype = candidates[first]]],
                  observed |-> {candidates[first]},
                  tried |-> SubSeq(candidates, 1, first)]

\* the types of one family: some root contains them all
SameFamily(unique) ==
    \E t \in unique : \A u \in unique : OutTypes[u].root = OutTypes[t].root

\* final[series.index] = series for every result, in a series of n missing
\* values (pd.NA, dtype object): a later result overwrites an earlier one
fold(labels, vals, n) ==
    With(replace_na(labels, ObjectType, n), LAMBDA filled :
        IF filled.out # "ok"
        THEN filled
        ELSE [out |-> "ok",
              rows |-> [q \in 1..n |->
                            IF filled.rows[q].na
                            THEN [val |-> <<0, 0>>, na |-> TRUE,
                                  dtype |-> ObjectType]
                            ELSE [val |-> vals[filled.rows[q].val],
                                  na |-> FALSE, dtype |-> ObjectType]]])

\* CompositeDispatch._combine_series(computed): results of one type (as
\* returned, or standardized) are concatenated in the order of the groups,
\* filled in when rows are missing, and given the original index; results of
\* several types are folded into an untyped series
combine_series(strategy, computed, hasnans, convert_mixed, fails) ==
    LET unique == { computed[g].otype : g \in 1..Len(computed) }
        std == IF convert_mixed /\ Cardinality(unique) > 1
                    /\ SameFamily(unique)
               THEN standardize_same_family(computed, unique, fails)
               ELSE [computed |-> computed, observed |-> unique,
                     tried |-> <<>>]
        final == concat(std.computed)
        n == Len(strategy.original_index.labels)
        type == CHOOSE t \in std.observed : TRUE
        filled ==
            IF Cardinality(std.observed) = 1
            THEN IF hasnans \/ Len(final.labels) < Len(strategy.index)
                 THEN With(replace_na(final.labels, make_nullable(type), n),
                           LAMBDA f :
                            [out |-> f.out,
                             rows |-> [q \in 1..Len(f.rows) |->
                                        [f.rows[q] EXCEPT
                                            !.val = IF f.rows[q].na
                                                    THEN <<0, 0>>
                                                    ELSE final.vals[@]]]])
                 ELSE [out |-> "ok",
                       rows |-> [j \in 1..Len(final.labels) |->
                                    [val |-> final.vals[j], na |-> FALSE,
                                     dtype |-> plain(type)]]]
            ELSE fold(final.labels, final.vals, n)
        indexed == set_index(filled, strategy.original_index)
    IN  [out |-> indexed.out, kind |-> indexed.kind, rows |-> indexed.rows,
         observed |-> std.observed, tried |-> std.tried]

\* nothing merged
NoMerged ==
    [out |-> "", kind |-> "", rows |-> <<>>, observed |-> {},
     tried |-> <<>>, collision |-> FALSE, mismatch |-> FALSE]

\* the aggregate as it would be if the results of the groups of one first
\* type were put in one row
composite_finalize_by_first(strategy, computed, convert_mixed, fails) ==
    [NoMerged EXCEPT
        !.out = "ok",
        !.kind = "frame",
        !.rows = [g \in 1..Cardinality({ strategy.groups[h].key[1] :
                                            h \in 1..Len(computed) }) |->
                    [key |-> strategy.groups[g].key,
                     val |-> <<g, 0>>,
                     holds |-> computed[g].kind]]]

\* CompositeDispatch.finalize(result): when every group returned a Series
\* the indices are checked and the results combined; otherwise every result
\* is taken for an aggregate and the outcome is a frame of one row per
\* group, holding the types of the group and what the group returned
composite_finalize(strategy, computed, convert_mixed, fails) ==
    IF \A g \in 1..Len(computed) : computed[g].kind = "series"
    THEN With(check_indices(strategy, computed), LAMBDA checked :
            With(combine_series(strategy, computed,
                                strategy.hasnans \/ checked.mismatch,
                                convert_mixed, fails),
                 LAMBDA final :
                    [out |-> final.out, kind |-> final.kind,
                     rows |-> final.rows, observed |-> final.observed,
                     tried |-> final.tried, collision |-> checked.collision,
                     mismatch |-> checked.mismatch]))
    ELSE [NoMerged EXCEPT
            !.out = "ok",
            !.kind = "frame",
            !.rows = [g \in 1..Len(computed) |->
                        [key |-> strategy.groups[g].key,
                         val |-> <<g, 0>>,
                         holds |-> computed[g].kind]]]

\* ------------------------------------------------------------------------
\* ExtensionFunc: the managed arguments of a function foo(bar, baz=..., **kwargs)
\* decorated with @extension_func.  The object is a threading.local: every
\* thread has its own _vals, _defaults and _validators, while the properties
\* made by register_arg are attributes of the class, which all threads share.
\* ------------------------------------------------------------------------

\* the parameters of the decorated function that may be managed
Names == {"bar", "baz"}

\* a key that a dict does not hold
Absent == "absent"

\* the default of register_arg when none is given
no_default == "no_default"

\* the validator of the examples, int(val): "s2" is a string that converts
\* to the number v2, "bad" one that does not convert
validator(val) ==
    IF val = "bad"
    THEN [ok |-> FALSE, val |-> Absent]
    ELSE [ok |-> TRUE, val |-> IF val = "s2" THEN "v2" ELSE val]

\* a dict without keys
EmptyDict == [n \in Names |-> Absent]

\* the attributes of the object in a thread that has not used it
NoInstance ==
    [inited |-> FALSE, vals |-> EmptyDict, defaults |-> EmptyDict,
     validators |-> <<>>]

\* the main thread, in which the function is decorated
MainThread == "T1"

\* ExtensionFunc.__init__ in the main thread: nothing is managed
NewExtension(sig) ==
    [sig |-> sig,
     props |-> {},
     inst |-> [t \in Threads |->
                IF t = MainThread
                THEN [NoInstance EXCEPT !.inited = TRUE]
                ELSE NoInstance]]

\* _ExtensionFunc.__init__ in a thread other than the main one, run at the
\* thread's first use of the object: the properties of the main thread's
\* arguments are fetched from the class, and _vals, _defaults and
\* _validators start as copies of the main thread's
first_use(e, t) ==
    IF \E i \in 1..Len(e.inst[MainThread].validators) :
            e.inst[MainThread].validators[i] \notin e.props
    THEN [e |-> e, out |-> "AttributeError", value |-> Absent]
    ELSE [e |-> [e EXCEPT !.inst[t] =
                    [inited |-> TRUE,
                     vals |-> e.inst[MainThread].vals,
                     defaults |-> e.inst[MainThread].defaults,
                     validators |-> e.inst[MainThread].validators]],
          out |-> "ok", value |-> Absent]

\* name in self
Managed(e, t, name) == name \in Range(e.inst[t].validators)

\* ExtensionFunc.register_arg(validator, default=default) for the validator
\* named 'name': a managed name is a KeyError; a default given is validated
\* and stored, a default of the signature is stored as it is; the property
\* is set on the class and the validator registered
register_arg(e, t, name, default) ==
    IF Managed(e, t, name)
    THEN [e |-> e, out |-> "KeyError", value |-> Absent]
    ELSE IF default # no_default /\ ~validator(default).ok
    THEN [e |-> e, out |-> "ValueError", value |-> Absent]
    ELSE [e |-> [e EXCEPT
                    !.inst[t].defaults[name] =
                        IF default = no_default THEN e.sig[name]
                        ELSE validator(default).val,
                    !.props = @ \cup {name},
                    !.inst[t].validators = Append(@, name)],
          out |-> "ok", value |-> Absent]

\* the commit loop of remove_arg over the names from the i-th on:
\* delattr(type(self), name) is an AttributeError when the class has no such
\* property; then the name is popped from _vals, _defaults and _validators
RECURSIVE remove_from(_, _, _, _)
remove_from(e, t, names, i) ==
    IF i > Len(names)
    THEN [e |-> e, out |-> "ok", value |-> Absent]
    ELSE IF names[i] \notin e.props
    THEN [e |-> e, out |-> "AttributeError", value |-> Absent]
    ELSE remove_from(
            [e EXCEPT
                !.props = @ \ {names[i]},
                !.inst[t].vals[names[i]] = Absent,
                !.inst[t].defaults[names[i]] = Absent,
                !.inst[t].validators =
                    SelectSeq(@, LAMBDA n : n # names[i])],
            t, names, i + 1)

\* remove_arg as it would be if every name were tested just before it is
\* removed
remove_arg_stepwise(e, t, names) ==
    IF names = <<>>
    THEN [e |-> e, out |-> "ok", value |-> Absent]
    ELSE IF ~Managed(e, t, names[1])
    THEN [e |-> e, out |-> "AttributeError", value |-> Absent]
    ELSE With(remove_from(e, t, <<names[1]>>, 1), LAMBDA r :
            IF r.out # "ok" THEN r
            ELSE IF \E i \in 2..Len(names) : ~Managed(r.e, t, names[i])
            THEN [e |-> r.e, out |-> "AttributeError", value |-> Absent]
            ELSE remove_from(r.e, t, names, 2))

\* ExtensionFunc.remove_arg(*names): every name is tested first
remove_arg(e, t, names) ==
    IF \E i \in 1..Len(names) : ~Managed(e, t, names[i])
    THEN [e |-> e, out |-> "AttributeError", value |-> Absent]
    ELSE remove_from(e, t, names, 1)

\* the getter of the property: the assigned value, else the default
getter(e, t, name) ==
    IF name \notin e.props
    THEN [e |-> e, out |-> "AttributeError", value |-> Absent]
    ELSE IF e.inst[t].vals[name] # Absent
    THEN [e |-> e, out |-> "ok", value |-> e.inst[t].vals[name]]
    ELSE IF e.inst[t].defaults[name] # Absent
    THEN [e |-> e, out |-> "ok", value |-> e.inst[t].defaults[name]]
    ELSE [e |-> e, out |-> "AttributeError", value |-> Absent]

\* the setter as it would be if it stored into a dict shared by the threads
setter_shared(e, t, name, val) ==
    IF ~validator(val).ok
    THEN [e |-> e, out |-> "ValueError", value |-> Absent]
    ELSE [e |-> [e EXCEPT !.inst = [u \in Threads |->
                    IF e.inst[u].inited
                    THEN [e.inst[u] EXCEPT !.vals[name] = validator(val).val]
                    ELSE e.inst[u]]],
          out |-> "ok", value |-> Absent]

\* the setter of the property: self._vals[name] = accept_default(val)
setter(e, t, name, val) ==
    IF ~validator(val).ok
    THEN [e |-> e, out |-> "ValueError", value |-> Absent]
    ELSE [e |-> [e EXCEPT !.inst[t].vals[name] = validator(val).val],
          out |-> "ok", value |-> Absent]

\* the deleter of the property: the default, when there is one, is
\* validated; then the assigned value is popped
deleter(e, t, name) ==
    IF e.inst[t].defaults[name] # Absent
            /\ ~validator(e.inst[t].defaults[name]).ok
    THEN [e |-> e, out |-> "ValueError", value |-> Absent]
    ELSE [e |-> [e EXCEPT !.inst[t].vals[name] = Absent],
          out |-> "ok", value |-> Absent]

\* delattr(self, name): the deleter of the class's property, an
\* AttributeError when the class has none
delattr(e, t, name) ==
    IF name \notin e.props
    THEN [e |-> e, out |-> "AttributeError", value |-> Absent]
    ELSE deleter(e, t, name)

\* delattr(self, name) for the names from the i-th on, up to the first that
\* raises
RECURSIVE delete_from(_, _, _, _)
delete_from(e, t, names, i) ==
    IF i > Len(names)
    THEN [e |-> e, out |-> "ok", value |-> Absent]
    ELSE With(delattr(e, t, names[i]), LAMBDA r :
            IF r.out # "ok" THEN r ELSE delete_from(r.e, t, names, i + 1))

\* ExtensionFunc.reset_defaults(*names): without names, all the arguments
\* the thread manages; names that are not all managed are an AttributeError
reset_defaults(e, t, names) ==
    IF names = <<>>
    THEN delete_from(e, t, e.inst[t].validators, 1)
    ELSE IF \E i \in 1..Len(names) : ~Managed(e, t, names[i])
    THEN [e |-> e, out |-> "AttributeError", value |-> Absent]
    ELSE delete_from(e, t, names, 1)

\* self.default_values: {**self._defaults, **self._vals}
default_values(e, t) ==
    [n \in Names |->
        IF e.inst[t].vals[n] # Absent THEN e.inst[t].vals[n]
        ELSE e.inst[t].defaults[n]]

\* ExtensionFunc.__call__ with the arguments 'passed' given: the passed
\* values of managed arguments are validated, put over the stored values and
\* defaults, and the function is called; a parameter left without a value
\* takes the default of the signature or is a TypeError
ext_call(e, t, passed) ==
    IF \E n \in Names : /\ passed[n] # Absent
                        /\ Managed(e, t, n)
                        /\ ~validator(passed[n]).ok
    THEN [e |-> e, out |-> "ValueError", value |-> EmptyDict]
    ELSE LET kwargs == [n \in Names |->
                IF passed[n] = Absent THEN default_values(e, t)[n]
                ELSE IF Managed(e, t, n) THEN validator(passed[n]).val
                ELSE passed[n]]
             used == [n \in Names |->
                IF kwargs[n] # Absent THEN kwargs[n] ELSE e.sig[n]]
         IN  IF \E n \in Names : used[n] = Absent
             THEN [e |-> e, out |-> "TypeError", value |-> EmptyDict]
             ELSE [e |-> e, out |-> "ok", value |-> used]

\* ------------------------------------------------------------------------
\* State
\* ------------------------------------------------------------------------

VARIABLES
    universe,    \* the types of the registry in use
    nargs,       \* number of dispatched arguments (length of every signature)
    sigs,        \* the signatures overloads are written for
    entries,     \* DispatchDict items, in iteration order
    ordered,     \* DispatchDict._ordered
    cache,       \* DispatchDict._cache, least recently used first
    registered,  \* history: signature -> implementation last registered for
                 \* it and not removed since (None when there is none)
    last,        \* the operation that has just completed (its name, key,
                 \* outcome and result), "idle" once the caller has moved on
    dfunc,       \* the DispatchFunc around the table: whether it exists and
                 \* its _args
    attempt,     \* the arguments of the constructor or overload call that
                 \* has just completed
    flags,       \* DispatchFunc._flags.recursive, per slot of the
                 \* threading.local()
    stack,       \* per thread, the calls of the generic function that are
                 \* executing, outermost first
    outcome,     \* the call of the generic function that has just completed
    batch,       \* the outermost call on vectors in progress: its stage, its
                 \* arguments, the strategy built, the result of the
                 \* implementation and the finalized result
    ext,         \* the ExtensionFunc: the signature of its function, the
                 \* properties of its class and its attributes per thread
    used,        \* the operation on the ExtensionFunc that has just completed
    order        \* the call of edge() or sort() over the free types that has
                 \* just completed

vars == <<universe, nargs, sigs, entries, ordered, cache, registered, last,
          dfunc, attempt, flags, stack, outcome, batch, ext, used,
          hierarchy, order>>

\* the scenario
scenario == <<universe, nargs, sigs>>

\* the calls of the generic function in progress
calls == <<flags, stack, outcome>>

\* what the operations of the table leave alone: the scenario, the generic
\* function around the table and the calls in progress
config ==
    <<scenario, dfunc, attempt, calls, batch, ext, used, hierarchy, order>>

\* the hierarchy of the free types and the call completed over it
ordering == <<hierarchy, order>>

\* no call of edge() or sort() over the free types has just completed
NoOrder ==
    [op |-> "none", sigs |-> <<>>, forward |-> FALSE, backward |-> FALSE,
     ok |-> TRUE, result |-> <<>>]

\* the ExtensionFunc and the operation completed on it
extension == <<ext, used>>

\* the signatures foo(bar, baz=v2, **kwargs) and foo(bar, baz=bad, **kwargs),
\* the second with a default its validator does not accept
Signatures ==
    { [bar |-> Absent, baz |-> "v2"], [bar |-> Absent, baz |-> "bad"] }

\* no operation on the ExtensionFunc has just completed
NoUse ==
    [op |-> "none", thread |-> None, names |-> <<>>, given |-> EmptyDict,
     out |-> "ok", value |-> EmptyDict, before |-> NewExtension(EmptyDict)]

\* no call on vectors is in progress
NoBatch ==
    [stage |-> "none", args |-> <<>>, drop_na |-> TRUE,
     strategy |-> NoStrategy, impl |-> None, result |-> NoResult,
     final |-> NoFinal, convert_mixed |-> FALSE, impls |-> <<>>,
     computed |-> <<>>, fails |-> {}, merged |-> NoMerged]

\* no call of the generic function has just completed
NoOutcome ==
    [thread |-> None, path |-> "", out |-> "", value |-> handback("", "raise", None)]

\* no thread is calling the generic function
NoCalls ==
    /\ flags = [t \in Threads |-> FALSE]
    /\ stack = [t \in Threads |-> <<>>]
    /\ outcome = NoOutcome
    /\ batch = NoBatch
    /\ ext = NewExtension([bar |-> Absent, baz |-> "v2"])
    /\ used = NoUse
    /\ hierarchy = {}
    /\ order = NoOrder

\* no constructor or overload call has just completed
NoAttempt ==
    [args |-> <<>>, params |-> <<>>, pos |-> <<>>, kw |-> <<>>, call |-> None]

\* the table as one value
Table == [entries |-> entries, ordered |-> ordered, cache |-> cache]

\* keys made of concrete types
Keys == Tuples(universe, nargs)

\* keys a caller can write: concrete or composite in any position
SpecKeys == Tuples(universe \cup {CompositeSpec}, nargs)

\* keys a caller can register: the scenario's signatures, or a composite
RegKeys == sigs \cup (SpecKeys \ Keys)

\* the specifiers a caller can write: a type, one of its aliases, or the
\* composite specifier
Specs ==
    universe \cup {CompositeSpec}
        \cup { a \in DOMAIN Aliases : Aliases[a] \in universe }

\* the keys a caller can write for table[key]: tuples of specifiers and, for a
\* function of one dispatched argument, a single specifier
RawKeys ==
    Tuples(Specs, nargs)
        \cup (IF nargs = 1 THEN { Bare(s) : s \in Specs } ELSE {})

\* ... and for table[key] = value: those naming one of the scenario's
\* signatures, or a composite
RawRegKeys ==
    { k \in RawKeys : ~resolve_key(k).ok \/ resolve_key(k).key \in sigs }

\* the key an operation is recorded under: the resolved key, or the key as
\* written when it does not resolve
Resolved(key) == IF resolve_key(key).ok THEN resolve_key(key).key ELSE key

Idle ==
    [op |-> "idle", key |-> <<>>, raw |-> <<>>, out |-> "ok", impl |-> None,
     path |-> "", called |-> <<>>]

\* the record kept of an operation
Done(op, key, out, impl, path, called) ==
    [op |-> op, key |-> key, raw |-> key, out |-> out, impl |-> impl,
     path |-> path, called |-> called]

\* the table left behind by an operation
Becomes(d) ==
    /\ entries' = d.entries
    /\ ordered' = d.ordered
    /\ cache' = d.cache

Init ==
    /\ \E sc \in Scenarios :
        /\ universe = sc.types
        /\ nargs = sc.nargs
        /\ sigs = sc.sigs
        /\ registered = [k \in Tuples(sc.types, sc.nargs) |-> None]
    /\ entries = <<>>
    /\ ordered = FALSE
    /\ cache = <<>>
    /\ last = Idle
    /\ dfunc = init(SubSeq(WrappedParams, 1, nargs)).func
    /\ attempt = NoAttempt
    /\ NoCalls

\* table[key]
DictGetItem ==
    /\ last = Idle
    /\ \E key \in RawKeys :
        \E r \in {getitem(Table, key)} :
            /\ Becomes(r.d)
            /\ last' = [Done("getitem", Resolved(key), r.out, r.impl, r.path,
                             <<>>) EXCEPT !.raw = key]
            /\ UNCHANGED <<config, registered>>

\* table.get(key)
DictGet ==
    /\ last = Idle
    /\ \E key \in SpecKeys :
        \E r \in {get(Table, key, None)} :
            /\ Becomes(r.d)
            /\ last' = Done("get", key, r.out, r.impl, r.path, <<>>)
            /\ UNCHANGED <<config, registered>>

\* key in table
DictContains ==
    /\ last = Idle
    /\ \E key \in SpecKeys :
        \E r \in {dict_contains(Table, key)} :
            /\ Becomes(r.d)
            /\ last' = Done("contains", key, r.out,
                            IF r.impl THEN "True" ELSE "False", r.path, <<>>)
            /\ UNCHANGED <<config, registered>>

\* table[key] = value
DictSetItem ==
    /\ last = Idle
    /\ \E key \in RawRegKeys, value \in Impls \cup {NotCallable} :
        \E r \in {setitem(Table, key, value)} :
            /\ Becomes(r.d)
            /\ registered' = IF r.out = "ok"
                             THEN [registered EXCEPT ![Resolved(key)] = value]
                             ELSE registered
            /\ last' = [Done("setitem", Resolved(key), r.out, value,
                             IF r.out # "ok" THEN "rejected"
                             ELSE IF HasKey(entries, Resolved(key))
                             THEN "overwrite"
                             ELSE "new", <<>>) EXCEPT !.raw = key]
            /\ UNCHANGED config

\* del table[key]
DictDelItem ==
    /\ last = Idle
    /\ \E key \in SpecKeys :
        \E r \in {delitem(Table, key)} :
            /\ Becomes(r.d)
            /\ registered' = IF r.out = "ok"
                             THEN [registered EXCEPT ![key] = None]
                             ELSE registered
            /\ last' = Done("delitem", key, r.out, None, "", <<>>)
            /\ UNCHANGED config

\* table.pop(key) and table.pop(key, default)
DictPop ==
    /\ last = Idle
    /\ \E key \in SpecKeys, default \in {NoDefault, "f1"} :
        \E r \in {pop(Table, key, default)} :
            /\ Becomes(r.d)
            /\ registered' = IF r.out = "ok" /\ key \in Keys
                                /\ registered[key] # None
                             THEN [registered EXCEPT ![key] = None]
                             ELSE registered
            /\ last' = Done("pop", key, r.out, r.impl, default, <<>>)
            /\ UNCHANGED config

\* table.setdefault(key) and table.setdefault(key, default)
DictSetDefault ==
    /\ last = Idle
    /\ \E key \in RegKeys, default \in Impls \cup {None} :
        \E r \in {setdefault(Table, key, default)} :
            /\ Becomes(r.d)
            /\ registered' = IF r.path = "inserted"
                             THEN [registered EXCEPT ![key] = default]
                             ELSE registered
            /\ last' = Done("setdefault", key, r.out, r.impl, r.path, <<>>)
            /\ UNCHANGED config

\* the mappings that can be handed to update(): up to MaxUpdate items with
\* distinct keys
Mappings ==
    LET Items == [sig : RegKeys, impl : Impls \cup {NotCallable}]
    IN  { m \in UNION { [1..n -> Items] : n \in 0..MaxUpdate } :
            \A i, j \in 1..Len(m) : i # j => m[i].sig # m[j].sig }

\* the history after the items of a mapping have been registered
RECURSIVE RegisterAll(_, _)
RegisterAll(reg, items) ==
    IF items = <<>> THEN reg
    ELSE RegisterAll([reg EXCEPT ![Head(items).sig] = Head(items).impl],
                     Tail(items))

\* table.update(other)
DictUpdate ==
    /\ last = Idle
    /\ \E other \in Mappings :
        \E r \in {update(Table, other)} :
            /\ Becomes(r.d)
            /\ registered' = IF r.out = "ok"
                             THEN RegisterAll(registered, other)
                             ELSE registered
            /\ last' = Done("update", <<>>, r.out, None,
                            IF r.out = "ok" THEN "set" ELSE "rejected", <<>>)
            /\ UNCHANGED config

\* func[key]
FuncGetItem ==
    /\ last = Idle
    /\ \E key \in SpecKeys :
        \E r \in {func_getitem(Table, key)} :
            /\ Becomes(r.d)
            /\ last' = Done("func_getitem", key, r.out, r.impl, r.path, <<>>)
            /\ UNCHANGED <<config, registered>>

\* del func[key]
FuncDelItem ==
    /\ last = Idle
    /\ \E key \in SpecKeys :
        \E r \in {func_delitem(Table, key)} :
            /\ Becomes(r.d)
            /\ registered' = IF r.out = "ok"
                             THEN [registered EXCEPT ![key] = None]
                             ELSE registered
            /\ last' = Done("func_delitem", key, r.out, None, "", <<>>)
            /\ UNCHANGED config

\* a call routed by DirectDispatch on arguments whose detected types are key;
\* the implementation that gets called returns or raises
DirectExecute ==
    /\ last = Idle
    /\ \E key \in SpecKeys, raises \in BOOLEAN :
        \E r \in {execute(Table, key, raises)} :
            /\ Becomes(r.d)
            /\ last' = Done("execute", key, r.out, r.impl, r.path, r.called)
            /\ UNCHANGED <<config, registered>>

\* the caller takes the outcome and goes on
Continue ==
    /\ last # Idle
    /\ last' = Idle
    /\ UNCHANGED <<config, entries, ordered, cache, registered>>

\* operations that register or look up, never remove
NextRegister ==
    \/ DictGetItem
    \/ DictGet
    \/ DictContains
    \/ DictSetItem
    \/ DictSetDefault
    \/ DictUpdate
    \/ FuncGetItem
    \/ DirectExecute
    \/ Continue

Next ==
    \/ DictGetItem
    \/ DictGet
    \/ DictContains
    \/ DictSetItem
    \/ DictDelItem
    \/ DictPop
    \/ DictSetDefault
    \/ DictUpdate
    \/ FuncGetItem
    \/ FuncDelItem
    \/ DirectExecute
    \/ Continue

\* every operation of the table and of the generic function
Spec == Init /\ [][Next]_vars

\* a table that only grows: registrations and lookups
SpecRegister == Init /\ [][NextRegister]_vars

\* ------------------------------------------------------------------------
\* The generic function from its construction on: @dispatch(*args) on a
\* function of parameters WrappedParams, then overloads and lookups
\* ------------------------------------------------------------------------

\* the scenarios overloads are written in: one and two dispatched arguments
OverloadScenarios ==
    { sc \in Scenarios : sc.types \in {PairTypes, DiamondTypes} }

\* the types overloads are written for
OverTypes == { s[i] : s \in sigs, i \in 1..nargs }

\* the argument lists handed to @dispatch: the right number of parameters of
\* the decorated function in any order, none at all, or an unknown name
ArgChoices ==
    { a \in UNION { Tuples({"x", "y"}, n) : n \in 0..2 } :
        /\ Len(a) \in {0, nargs}
        /\ \A i, j \in 1..Len(a) : i # j => a[i] # a[j] }
        \cup { <<"w">> } \cup { <<"x", "w">> }

\* the parameter lists of the implementations handed to overload()
ImplParams ==
    { <<"x", "y">>, <<"y", "x">>, <<"x", "y", "z">>, <<"x", "z">> }

\* the specifiers written in one overload call, in the order written: one
\* type, then two types, then the other type, and so on in turn
WrittenLists ==
    { << <<a>>, <<b, a>>, <<b>> >> : a, b \in OverTypes } \ 
        { << <<a>>, <<a, a>>, <<a>> >> : a \in OverTypes }

\* the ways of writing m specifiers: the first npos positionally, the others
\* by the keyword names kwnames, each name once
Shapes ==
    { sh \in [npos : 0..MaxWritten,
              kwnames : UNION { Tuples({"x", "y", "z"}, n) : n \in 0..3 }] :
        /\ sh.npos + Len(sh.kwnames) <= MaxWritten
        /\ \A i, j \in 1..Len(sh.kwnames) :
                i # j => sh.kwnames[i] # sh.kwnames[j] }

\* the i-th specifier written
WrittenAt(w, i) == w[((i - 1) % Len(w)) + 1]

\* *args of the overload call
PosOf(sh, w) == [i \in 1..sh.npos |-> WrittenAt(w, i)]

\* **kwargs of the overload call
KwOf(sh, w) ==
    [n \in Range(sh.kwnames) |->
        WrittenAt(w, sh.npos + ParamIndex(sh.kwnames, n))]

InitOverload ==
    /\ \E sc \in OverloadScenarios :
        /\ universe = sc.types
        /\ nargs = sc.nargs
        /\ sigs = sc.sigs
        /\ registered = [k \in Tuples(sc.types, sc.nargs) |-> None]
    /\ entries = <<>>
    /\ ordered = FALSE
    /\ cache = <<>>
    /\ last = Idle
    /\ dfunc = NoFunc
    /\ attempt = NoAttempt
    /\ NoCalls

\* @dispatch(*args) applied to the decorated function
Construct ==
    /\ last = Idle
    /\ ~dfunc.made
    /\ \E args \in ArgChoices :
        \E r \in {init(args)} :
            /\ dfunc' = r.func
            /\ attempt' = [NoAttempt EXCEPT !.args = args,
                                            !.params = WrappedParams]
            /\ last' = Done("construct", <<>>, r.out, None, r.path, <<>>)
            /\ UNCHANGED <<scenario, extension, ordering, calls, batch, entries, ordered, cache,
                           registered>>

\* @func.overload(*pos, **kw) applied to the implementation call
Overload ==
    /\ last = Idle
    /\ dfunc.made
    /\ \E params \in ImplParams, sh \in Shapes, w \in WrittenLists,
          call \in Impls :
        \E r \in {overload(Table, dfunc.args, params, PosOf(sh, w),
                           KwOf(sh, w), call)} :
            /\ Becomes(r.d)
            /\ registered' = [k \in DOMAIN registered |->
                                IF r.out = "ok" /\ k \in Range(r.paths)
                                THEN call ELSE registered[k]]
            /\ attempt' = [args |-> dfunc.args, params |-> params,
                           pos |-> PosOf(sh, w), kw |-> KwOf(sh, w),
                           call |-> call]
            /\ last' = Done("overload", <<>>, r.out, call, r.path, <<>>)
            /\ UNCHANGED <<scenario, extension, ordering, calls, batch, dfunc>>

\* func.dispatched[key] once the function exists
OverloadLookup ==
    /\ dfunc.made
    /\ DictGetItem

\* the caller takes the outcome of the construction, overload or lookup and
\* goes on
Resume ==
    /\ last # Idle
    /\ last' = Idle
    /\ attempt' = NoAttempt
    /\ UNCHANGED <<scenario, extension, ordering, calls, batch, dfunc, entries, ordered, cache,
                   registered>>

NextOverload ==
    \/ Construct
    \/ Overload
    \/ OverloadLookup
    \/ Resume

\* construction of the generic function, overloads and lookups
SpecOverload == InitOverload /\ [][NextOverload]_vars

\* ------------------------------------------------------------------------
\* Calls of the generic function from several threads, nested inside the
\* implementations they dispatch to
\* ------------------------------------------------------------------------

\* the signatures of a scenario in some order
SigList(sc) ==
    CHOOSE s \in [1..Cardinality(sc.sigs) -> sc.sigs] : Range(s) = sc.sigs

\* the tables the calls find: no overload, or the scenario's signatures
\* registered; the signatures of the cyclic scenario make a lookup raise
InitThreads ==
    /\ \E sc \in { c \in Scenarios : c.types \in {TreeTypes, CyclicTypes} } :
        /\ universe = sc.types
        /\ nargs = sc.nargs
        /\ sigs = sc.sigs
        /\ registered = [k \in Tuples(sc.types, sc.nargs) |-> None]
        /\ entries \in { <<>>,
                         [i \in 1..Cardinality(sc.sigs) |->
                            [sig |-> SigList(sc)[i], impl |-> "f1"]] }
    /\ ordered = FALSE
    /\ cache = <<>>
    /\ last = Idle
    /\ dfunc = init(SubSeq(WrappedParams, 1, nargs)).func
    /\ attempt = NoAttempt
    /\ NoCalls

\* thread t calls the generic function on arguments of the detected types
\* key: the marker is tested (and set), the implementation is looked up and
\* starts executing; a lookup that raises ends the call at once
ThreadCall(t) ==
    /\ outcome = NoOutcome
    /\ Len(stack[t]) < MaxDepth
    /\ \E key \in Keys :
        \E e \in {enter(flags, t)} :
            \E r \in {func_getitem(Table, key)} :
                /\ Becomes(r.d)
                /\ IF r.out = "ok"
                   THEN /\ flags' = e.flags
                        /\ stack' = [stack EXCEPT ![t] =
                                        Append(@, [path |-> e.path,
                                                   impl |-> r.impl])]
                        /\ outcome' = NoOutcome
                   ELSE /\ flags' = leave(e.flags, t, e.path, "raise")
                        /\ stack' = stack
                        /\ outcome' = [thread |-> t, path |-> e.path,
                                       out |-> "raise",
                                       value |-> handback(e.path, "raise",
                                                          None)]
                /\ UNCHANGED <<scenario, extension, ordering, dfunc, attempt, registered, last,
                               batch>>

\* the innermost call executing on thread t ends: its implementation returns
\* or an exception propagates out of it
ThreadFinish(t) ==
    /\ outcome = NoOutcome
    /\ stack[t] # <<>>
    /\ \E how \in {"return", "raise"} :
        \E top \in {stack[t][Len(stack[t])]} :
            /\ flags' = leave(flags, t, top.path, how)
            /\ stack' = [stack EXCEPT ![t] = SubSeq(@, 1, Len(@) - 1)]
            /\ outcome' = [thread |-> t, path |-> top.path, out |-> how,
                           value |-> handback(top.path, how, top.impl)]
            /\ UNCHANGED <<scenario, extension, ordering, dfunc, attempt, registered, last,
                           batch, entries, ordered, cache>>

\* the caller takes what the call handed back
Deliver ==
    /\ outcome # NoOutcome
    /\ outcome' = NoOutcome
    /\ UNCHANGED <<scenario, extension, ordering, dfunc, attempt, registered, last, batch,
                   entries, ordered, cache, flags, stack>>

NextThreads ==
    \/ \E t \in Threads : ThreadCall(t)
    \/ \E t \in Threads : ThreadFinish(t)
    \/ Deliver

\* the generic function called from the threads
SpecThreads == InitThreads /\ [][NextThreads]_vars

\* ------------------------------------------------------------------------
\* Outermost calls of the generic function on vectors
\* ------------------------------------------------------------------------

\* the vectors of n rows: every cell a type or missing
VectorsOf(n) ==
    { [vector |-> TRUE, cells |-> c] : c \in [1..n -> universe \cup {NA}] }

\* the scalars
Scalars == { [vector |-> FALSE, cells |-> <<t>>] : t \in universe }

\* the arguments of a call on n rows: the first dispatched argument is a
\* vector, the second a vector or a scalar; some row has no missing value
ArgsOf(n) ==
    { a \in [1..2 -> VectorsOf(n) \cup Scalars] :
        /\ a[1].vector
        /\ dropna(Vectors(a), n) # <<>> }

\* the indices of n rows: the default RangeIndex(0, n), the RangeIndex(1, n+1)
\* of a slice, and an index of labels n, ..., 1
IndicesOf(n) ==
    { [range |-> TRUE, labels |-> [i \in 1..n |-> i - 1]],
      [range |-> TRUE, labels |-> [i \in 1..n |-> i]],
      [range |-> FALSE, labels |-> [i \in 1..n |-> n + 1 - i]] }

\* the results of an implementation called on the rows of the given labels:
\* an exception, a scalar, or a Series of one type holding any of these rows
\* and of the other labels up to MaxRows, each at most once, in any order,
\* and no more rows than it was called on
ResultsOn(index) ==
    { [kind |-> "raise", labels |-> <<>>, otype |-> None],
      [kind |-> "scalar", labels |-> <<>>, otype |-> None] }
        \cup { [kind |-> "series", labels |-> l, otype |-> t] :
                l \in { m \in UNION { [1..k -> 0..MaxRows] :
                                        k \in 0..Len(index) } :
                            \A i, j \in 1..Len(m) : i # j => m[i] # m[j] },
                t \in universe }

InitVector ==
    /\ \E sc \in { c \in Scenarios : c.types = PairTypes } :
        /\ universe = sc.types
        /\ nargs = sc.nargs
        /\ sigs = sc.sigs
        /\ registered = [k \in Tuples(sc.types, sc.nargs) |-> None]
        /\ entries \in { <<>>,
                         [i \in 1..Cardinality(sc.sigs) |->
                            [sig |-> SigList(sc)[i], impl |-> "f1"]] }
    /\ ordered = FALSE
    /\ cache = <<>>
    /\ last = Idle
    /\ dfunc = init(SubSeq(WrappedParams, 1, nargs)).func
    /\ attempt = NoAttempt
    /\ NoCalls

\* an outermost call: the strategy is built from the dispatched arguments;
\* vectors holding missing values are only handed to a function that drops
\* them
BuildStrategy ==
    /\ batch.stage = "none"
    /\ \E n \in 1..MaxRows :
        \E args \in ArgsOf(n), index \in IndicesOf(n), drop_na \in BOOLEAN :
            /\ drop_na \/ Len(dropna(Vectors(args), n)) = n
            /\ batch' = [NoBatch EXCEPT
                            !.stage = "built",
                            !.args = args,
                            !.drop_na = drop_na,
                            !.strategy = build_strategy(args, index, drop_na)]
    /\ UNCHANGED <<scenario, extension, ordering, dfunc, attempt, registered, last, entries,
                   ordered, cache, flags, stack, outcome>>

\* HomogenousDispatch.execute(bound): the implementation is looked up under
\* the detected types and called on the normalized vectors; it raises or
\* returns its result
HomogenousExecute ==
    /\ batch.stage = "built"
    /\ batch.strategy.kind = "homogenous"
    /\ \E r \in {func_getitem(Table, DirectKey(batch.strategy))} :
        /\ Becomes(r.d)
        /\ IF r.out = "ok"
           THEN \E result \in ResultsOn(batch.strategy.index) :
                    batch' = [batch EXCEPT
                                !.stage = IF result.kind = "raise"
                                          THEN "raised" ELSE "executed",
                                !.args = <<>>,
                                !.impl = r.impl,
                                !.result = result]
           ELSE batch' = [batch EXCEPT !.stage = "raised", !.args = <<>>]
    /\ UNCHANGED <<scenario, extension, ordering, dfunc, attempt, registered, last, flags, stack,
                   outcome>>

\* HomogenousDispatch.finalize(result)
HomogenousFinalize ==
    /\ batch.stage = "executed"
    /\ batch.strategy.kind = "homogenous"
    /\ batch' = [batch EXCEPT
                    !.stage = "finalized",
                    !.final = finalize(batch.strategy, batch.result)]
    /\ UNCHANGED <<scenario, extension, ordering, dfunc, attempt, registered, last, entries,
                   ordered, cache, flags, stack, outcome>>

\* the call is over: its result or exception has gone to the caller (the
\* groups of a composite strategy are handed to its execute)
VectorDone ==
    /\ \/ batch.stage \in {"finalized", "raised"}
       \/ batch.stage = "built" /\ batch.strategy.kind = "composite"
    /\ batch' = NoBatch
    /\ UNCHANGED <<scenario, extension, ordering, dfunc, attempt, registered, last, entries,
                   ordered, cache, flags, stack, outcome>>

NextVector ==
    \/ BuildStrategy
    \/ HomogenousExecute
    \/ HomogenousFinalize
    \/ VectorDone

\* outermost calls of the generic function on vectors
SpecVector == InitVector /\ [][NextVector]_vars

\* ------------------------------------------------------------------------
\* Outermost calls of the generic function on vectors of mixed types
\* ------------------------------------------------------------------------

\* a sequence in reverse
Reverse(seq) == [i \in 1..Len(seq) |-> seq[Len(seq) + 1 - i]]

\* the labels other than those of a group that an implementation may
\* return: the first label of the frame that is not the group's, and the
\* label MaxRows, which no default index has
Others(own) ==
    LET free == (0..MaxRows) \ Range(own)
    IN  { l \in free : l = MaxRows \/ \A k \in free : l <= k }

\* the results of an implementation called on the rows of a group: None, a
\* scalar, or a Series of one type holding the rows of the group in their
\* order or in reverse, or all but the first, or another row in place of
\* the first
ResultsOfGroup(own) ==
    { [kind |-> "none", labels |-> <<>>, otype |-> None],
      [kind |-> "scalar", labels |-> <<>>, otype |-> None] }
        \cup { [kind |-> "series", labels |-> l, otype |-> t] :
                l \in {own, Reverse(own), Tail(own)}
                        \cup { [own EXCEPT ![1] = other] :
                                other \in Others(own) },
                t \in DOMAIN OutTypes }

\* the table of the calls on mixed vectors: an overload for every key
InitComposite ==
    /\ \E sc \in { c \in Scenarios : c.types = PairTypes } :
        /\ universe = sc.types
        /\ nargs = sc.nargs
        /\ sigs = sc.sigs
        /\ registered = [k \in Tuples(sc.types, sc.nargs) |-> None]
        /\ entries \in { e \in [1..Cardinality(Tuples(sc.types, sc.nargs)) ->
                                    [sig : Tuples(sc.types, sc.nargs),
                                     impl : {"f1"}]] :
                            /\ \A i, j \in DOMAIN e :
                                    i # j => e[i].sig # e[j].sig
                            /\ e[1].sig = <<"Number", "Number">>
                            /\ e[2].sig = <<"Number", "Int">>
                            /\ e[3].sig = <<"Int", "Number">> }
    /\ ordered = FALSE
    /\ cache = <<>>
    /\ last = Idle
    /\ dfunc = init(SubSeq(WrappedParams, 1, nargs)).func
    /\ attempt = NoAttempt
    /\ NoCalls

\* an outermost call on vectors that make a composite strategy of no more
\* than MaxGroups groups, by a function that drops missing values (the
\* default) and converts mixed results or not
CompositeBuild ==
    /\ batch.stage = "none"
    /\ \E n \in 1..MaxRows :
        \E args \in ArgsOf(n), index \in IndicesOf(n),
           drop_na \in {TRUE}, convert_mixed \in BOOLEAN :
            \E strategy \in {build_strategy(args, index, drop_na)} :
                /\ strategy.kind = "composite"
                /\ Len(strategy.groups) <= MaxGroups
                /\ batch' = [NoBatch EXCEPT
                                !.stage = "built",
                                !.args = args,
                                !.drop_na = drop_na,
                                !.convert_mixed = convert_mixed,
                                !.strategy = strategy]
    /\ UNCHANGED <<scenario, extension, ordering, dfunc, attempt, registered, last, entries,
                   ordered, cache, flags, stack, outcome>>

\* CompositeDispatch.execute(bound): for every group in turn, the
\* implementation is looked up under the types of the group and called on
\* the rows of the group; the first lookup or implementation that raises
\* ends the call
CompositeExecute ==
    /\ batch.stage = "built"
    /\ batch.strategy.kind = "composite"
    /\ \E upto \in 1..Len(batch.strategy.groups), raises \in BOOLEAN :
        \E r \in {lookups(Table, batch.args, batch.strategy.groups, upto)} :
            /\ raises \/ upto = Len(batch.strategy.groups)
            /\ Becomes(r.d)
            /\ IF r.out = "ok" /\ ~raises
               THEN \E computed \in
                        { c \in [1..upto -> UNION { ResultsOfGroup(
                                    GroupIndex(batch.strategy,
                                               batch.strategy.groups[g])) :
                                    g \in 1..upto }] :
                            \A g \in 1..upto :
                                c[g] \in ResultsOfGroup(
                                    GroupIndex(batch.strategy,
                                               batch.strategy.groups[g])) } :
                        batch' = [batch EXCEPT
                                    !.stage = "executed",
                                    !.args = <<>>,
                                    !.impls = r.impls,
                                    !.computed = computed]
               ELSE batch' = [batch EXCEPT !.stage = "raised", !.args = <<>>]
    /\ UNCHANGED <<scenario, extension, ordering, dfunc, attempt, registered, last, flags, stack,
                   outcome>>

\* the types a cast is attempted to when the results are merged
Attempted(computed, convert_mixed) ==
    LET unique == { computed[g].otype : g \in 1..Len(computed) }
    IN  IF /\ \A g \in 1..Len(computed) : computed[g].kind = "series"
           /\ convert_mixed
           /\ Cardinality(unique) > 1
           /\ SameFamily(unique)
        THEN Range(Candidates(unique))
        ELSE {}

\* CompositeDispatch.finalize(result), the casts to the types in 'fails'
\* raising
CompositeFinalize ==
    /\ batch.stage = "executed"
    /\ batch.strategy.kind = "composite"
    /\ \E fails \in SUBSET DOMAIN OutTypes :
        /\ fails \subseteq Attempted(batch.computed, batch.convert_mixed)
        /\ batch' = [batch EXCEPT
                        !.stage = "finalized",
                        !.fails = fails,
                        !.merged = composite_finalize(
                                        batch.strategy, batch.computed,
                                        batch.convert_mixed, fails)]
    /\ UNCHANGED <<scenario, extension, ordering, dfunc, attempt, registered, last, entries,
                   ordered, cache, flags, stack, outcome>>

NextComposite ==
    \/ CompositeBuild
    \/ CompositeExecute
    \/ CompositeFinalize
    \/ VectorDone

\* outermost calls of the generic function on vectors of mixed types
SpecComposite == InitComposite /\ [][NextComposite]_vars

\* ------------------------------------------------------------------------
\* Outermost calls of the generic function on vectors of one type and of
\* mixed types alike
\* ------------------------------------------------------------------------

\* a call whose vectors are of one type each
HomogenousBuild ==
    /\ BuildStrategy
    /\ batch'.strategy.kind = "homogenous"

NextTransform ==
    \/ HomogenousBuild
    \/ HomogenousExecute
    \/ HomogenousFinalize
    \/ CompositeBuild
    \/ CompositeExecute
    \/ CompositeFinalize
    \/ VectorDone

\* outermost calls of the generic function on vectors of either kind
SpecTransform == InitComposite /\ [][NextTransform]_vars

\* ------------------------------------------------------------------------
\* The ExtensionFunc used from the main thread and from a second thread
\* ------------------------------------------------------------------------

\* the dispatch table, the calls and the vectors
dispatching ==
    <<scenario, dfunc, attempt, registered, last, entries, ordered, cache,
      flags, stack, outcome, batch, ordering>>

\* the values a program assigns, passes or registers as a default
Inputs == {"v1", "s2", "bad"}

\* the defaults a program registers: none, one that converts and one that
\* does not
Defaults == {no_default, "s2", "bad"}

\* the arguments of a call that passes at most one of them
Passed ==
    { p \in [Names -> {Absent, "s2", "bad"}] :
        \E n \in Names : p[n] = Absent }

\* the lists of names handed to remove_arg and to reset_defaults
NameLists == { <<"bar">>, <<"baz">>, <<"bar", "baz">> }

\* a dict holding v under every name of the list
AsDict(names, v) == [n \in Names |-> IF n \in Range(names) THEN v ELSE Absent]

\* the record of an operation that returned r
Use(op, t, names, given, r) ==
    /\ ext' = r.e
    /\ used' = [op |-> op, thread |-> t, names |-> names, given |-> given,
                out |-> r.out,
                value |-> IF op = "call" THEN r.value
                          ELSE AsDict(names, r.value),
                before |-> ext]
    /\ UNCHANGED dispatching

\* the function is decorated in the main thread
InitExtension ==
    /\ universe = PairTypes
    /\ nargs = 1
    /\ sigs = {}
    /\ registered = [k \in Tuples(PairTypes, 1) |-> None]
    /\ entries = <<>>
    /\ ordered = FALSE
    /\ cache = <<>>
    /\ last = Idle
    /\ dfunc = init(SubSeq(WrappedParams, 1, nargs)).func
    /\ attempt = NoAttempt
    /\ flags = [t \in Threads |-> FALSE]
    /\ stack = [t \in Threads |-> <<>>]
    /\ outcome = NoOutcome
    /\ batch = NoBatch
    /\ ext \in { NewExtension(sig) : sig \in Signatures }
    /\ used = NoUse
    /\ hierarchy = {}
    /\ order = NoOrder

\* a thread other than the main one uses the object for the first time
FirstUse ==
    /\ used.op = "none"
    /\ \E t \in Threads :
        /\ ~ext.inst[t].inited
        /\ Use("first_use", t, <<>>, EmptyDict, first_use(ext, t))

\* @foo.register_arg or @foo.register_arg(default=...) on a validator
RegisterArg ==
    /\ used.op = "none"
    /\ \E t \in Threads, name \in Names, default \in Defaults :
        /\ ext.inst[t].inited
        /\ Use("register_arg", t, <<name>>, AsDict(<<name>>, default),
               register_arg(ext, t, name, default))

\* foo.remove_arg(*names)
RemoveArg ==
    /\ used.op = "none"
    /\ \E t \in Threads, names \in NameLists :
        /\ ext.inst[t].inited
        /\ Use("remove_arg", t, names, EmptyDict, remove_arg(ext, t, names))

\* foo.name
GetAttr ==
    /\ used.op = "none"
    /\ \E t \in Threads, name \in Names :
        /\ ext.inst[t].inited
        /\ Use("get", t, <<name>>, EmptyDict, getter(ext, t, name))

\* foo.name = val, for a name that has a property
SetAttr ==
    /\ used.op = "none"
    /\ \E t \in Threads, name \in ext.props, val \in Inputs :
        /\ ext.inst[t].inited
        /\ Use("set", t, <<name>>, AsDict(<<name>>, val),
               setter(ext, t, name, val))

\* del foo.name
DelAttr ==
    /\ used.op = "none"
    /\ \E t \in Threads, name \in Names :
        /\ ext.inst[t].inited
        /\ Use("del", t, <<name>>, EmptyDict, delattr(ext, t, name))

\* foo.reset_defaults(*names)
ResetDefaults ==
    /\ used.op = "none"
    /\ \E t \in Threads, names \in NameLists \cup {<<>>} :
        /\ ext.inst[t].inited
        /\ Use("reset_defaults", t, names, EmptyDict,
               reset_defaults(ext, t, names))

\* foo(...) with some of the arguments passed
Call ==
    /\ used.op = "none"
    /\ \E t \in Threads, passed \in Passed :
        /\ ext.inst[t].inited
        /\ Use("call", t, <<>>, passed, ext_call(ext, t, passed))

\* the operation has returned
UseDone ==
    /\ used.op # "none"
    /\ used' = NoUse
    /\ UNCHANGED <<ext, dispatching>>

NextExtension ==
    \/ FirstUse
    \/ RegisterArg
    \/ RemoveArg
    \/ GetAttr
    \/ SetAttr
    \/ DelAttr
    \/ ResetDefaults
    \/ Call
    \/ UseDone

\* the ExtensionFunc of a function foo(bar, baz=..., **kwargs) used from two
\* threads
SpecExtension == InitExtension /\ [][NextExtension]_vars

\* ------------------------------------------------------------------------
\* edge() and sort() over a hierarchy whose contains() is any relation
\* ------------------------------------------------------------------------

\* the table, the generic function, its calls and the ExtensionFunc
elsewhere ==
    <<scenario, dfunc, attempt, registered, last, entries, ordered, cache,
      flags, stack, outcome, batch, extension>>

\* the free types in alphabetical order
FreeOrder == <<"K", "L", "M">>

\* signature a comes before signature b of the same length in the
\* alphabetical order
Before(a, b) ==
    \E i \in 1..Len(a) :
        /\ \A j \in 1..(i - 1) : a[j] = b[j]
        /\ \E p, q \in 1..Len(FreeOrder) :
            p < q /\ FreeOrder[p] = a[i] /\ FreeOrder[q] = b[i]

\* the tables of n signatures of length k over the free types, each set of
\* signatures registered in alphabetical order
SigLists(k, n) ==
    { l \in [1..n -> Tuples(FreeTypes, k)] :
        \A i, j \in 1..n : i < j => Before(l[i], l[j]) }

\* the free types under one of all the relations they can be in
InitOrder ==
    /\ universe = FreeTypes
    /\ nargs = 1
    /\ sigs = {}
    /\ registered = [k \in Tuples(FreeTypes, 1) |-> None]
    /\ entries = <<>>
    /\ ordered = FALSE
    /\ cache = <<>>
    /\ last = Idle
    /\ dfunc = init(SubSeq(WrappedParams, 1, nargs)).func
    /\ attempt = NoAttempt
    /\ flags = [t \in Threads |-> FALSE]
    /\ stack = [t \in Threads |-> <<>>]
    /\ outcome = NoOutcome
    /\ batch = NoBatch
    /\ ext = NewExtension([bar |-> Absent, baz |-> "v2"])
    /\ used = NoUse
    /\ hierarchy \in SUBSET (FreeTypes \X FreeTypes)
    /\ order = NoOrder

\* edge(sig1, sig2) and edge(sig2, sig1) for two signatures of one length,
\* or of which one is empty
Precedes ==
    /\ order.op = "none"
    /\ \E n, m \in 0..MaxSigLen :
        /\ n = m \/ n = 0 \/ m = 0
        /\ \E sig1 \in Tuples(FreeTypes, n), sig2 \in Tuples(FreeTypes, m) :
            order' = [op |-> "edge", sigs |-> <<sig1, sig2>>,
                      forward |-> edge(sig1, sig2),
                      backward |-> edge(sig2, sig1),
                      ok |-> TRUE, result |-> <<>>]
    /\ UNCHANGED <<hierarchy, elsewhere>>

\* sort() of a table that holds up to MaxSigs signatures of one length
SortSignatures ==
    /\ order.op = "none"
    /\ \E k \in 1..MaxSigLen, n \in 1..MaxSigs :
        \E l \in SigLists(k, n) :
            \E r \in {sort([i \in 1..n |-> [sig |-> l[i], impl |-> "f1"]])} :
                order' = [op |-> "sort", sigs |-> l,
                          forward |-> FALSE, backward |-> FALSE,
                          ok |-> r.ok, result |-> SigsOf(r.entries)]
    /\ UNCHANGED <<hierarchy, elsewhere>>

\* the call has returned
OrderDone ==
    /\ order.op # "none"
    /\ order' = NoOrder
    /\ UNCHANGED <<hierarchy, elsewhere>>

NextOrder ==
    \/ Precedes
    \/ SortSignatures
    \/ OrderDone

\* the ordering of signatures over every hierarchy of three types
SpecOrder == InitOrder /\ [][NextOrder]_vars

\* ------------------------------------------------------------------------
\* Vocabulary of the properties
\* ------------------------------------------------------------------------

\* A is at least as specific as B everywhere, and B is not as specific as A
StrictlySupersedes(a, b) == supercedes(a, b) /\ ~supercedes(b, a)

\* the last operation was a lookup (table[key], func[key] or a routed call)
\* of a key made of concrete types
LookedUp == last.op \in {"getitem", "func_getitem", "execute"}
                /\ last.key \in Keys

\* ... which is not exactly registered and was answered by an overload
AnsweredInexact ==
    /\ LookedUp
    /\ ~HasKey(entries, last.key)
    /\ last.impl \in Impls

\* some registered signature contains the key at every position
SomeMatch(key) == \E i \in 1..Len(entries) : Matches(entries[i].sig, key)

\* the edges that sort() builds over a set of signatures contain a cycle:
\* a non-empty set of signatures each of which has an incoming edge from
\* the set
EdgesCyclic(S) ==
    \E C \in SUBSET S :
        /\ C # {}
        /\ \A n \in C : \E m \in C : edge(m, n)

\* ------------------------------------------------------------------------
\* Properties
\* ------------------------------------------------------------------------

\* C1: in a table that is only registered into and looked up, a lookup of a
\* key that is not exactly registered returns the implementation of a
\* registered entry whose signature contains the key at every position and
\* which no other registered entry containing the key strictly supersedes.
C1_MostSpecificMatch ==
    AnsweredInexact =>
        \E i \in 1..Len(entries) :
            /\ entries[i].impl = last.impl
            /\ Matches(entries[i].sig, last.key)
            /\ \A j \in 1..Len(entries) :
                Matches(entries[j].sig, last.key)
                    => ~StrictlySupersedes(entries[j].sig, entries[i].sig)

\* C1 witness: generic and specific are both registered with different
\* implementations, both contain the key, and the specific one answered.
C1_Witness ==
    /\ AnsweredInexact
    /\ last.path = "scan"
    /\ \E i, j \in 1..Len(entries) :
        /\ Matches(entries[i].sig, last.key)
        /\ Matches(entries[j].sig, last.key)
        /\ StrictlySupersedes(entries[i].sig, entries[j].sig)
        /\ entries[i].impl = last.impl
        /\ entries[j].impl # last.impl

\* C2: whatever the state of the table, a lookup of a key equal to a
\* registered signature is answered with the implementation most recently
\* registered for that signature.
C2_ExactMatchWins ==
    (LookedUp /\ registered[last.key] # None) =>
        /\ last.impl = registered[last.key]
        /\ last.path = "exact"
        /\ last.op # "execute" => last.out = "ok"

\* C2 witness: an exact lookup answered while the table is unordered and the
\* cache still holds another implementation for the very same key.
C2_Witness ==
    /\ LookedUp
    /\ registered[last.key] # None
    /\ ~ordered
    /\ CacheHas(cache, last.key)
    /\ CacheValue(cache, last.key) # last.impl

\* C3: a lookup of a key that is not exactly registered returns what a fresh
\* scan of the current entries returns, never an implementation cached
\* before a mutation (in particular not that of a removed entry).
C3_CacheCoherence ==
    AnsweredInexact =>
        /\ FirstMatch(entries, last.key) # 0
        /\ last.impl = entries[FirstMatch(entries, last.key)].impl

\* C4: whenever the table is ordered, no entry is strictly superseded by an
\* entry that comes after it.
C4_SpecificityOrder ==
    ordered =>
        \A i, j \in 1..Len(entries) :
            StrictlySupersedes(entries[i].sig, entries[j].sig) => i < j

\* C4 witness: a lookup has sorted a table of three entries among which one
\* strictly supersedes another.
C4_Witness ==
    /\ ordered
    /\ last.op = "getitem"
    /\ last.path \in {"scan", "nomatch"}
    /\ Len(entries) = 3
    /\ \E i, j \in 1..Len(entries) :
        StrictlySupersedes(entries[i].sig, entries[j].sig)

\* C5: a lookup of a key that no registered signature contains fails with
\* KeyError (unless the sort it needs fails first) and leaves nothing cached
\* for that key.
C5_NoMatchFails ==
    (last.op = "getitem" /\ last.key \in Keys /\ ~SomeMatch(last.key)
        /\ last.out # "ValueError") =>
        /\ last.out = "KeyError"
        /\ ~CacheHas(cache, last.key)

\* C6: func[key] and a routed call use the decorated function exactly when
\* the table lookup raises KeyError and otherwise the implementation the
\* table lookup returns; every other exception of the lookup is passed on; a
\* KeyError raised by the implementation called is passed on too, no second
\* function being called.
C6_FallbackOnNoMatchOnly ==
    [][last'.op \in {"func_getitem", "execute"} =>
        \E t \in {getitem(Table, last'.key)} :
            /\ (t.out = "KeyError") <=> (last'.impl = Wrapped)
            /\ t.out = "ok" => last'.impl = t.impl
            /\ t.out \in {"ValueError", "TypeError"} =>
                    last'.out = t.out /\ last'.impl = None
            /\ t.out \in {"ok", "KeyError"} =>
                    IF last'.op = "execute"
                    THEN /\ last'.called = <<last'.impl>>
                         /\ last'.out \in {"ok", "KeyError"}
                    ELSE last'.out = "ok"
            /\ Becomes(t.d)
    ]_vars

\* C6 witness: a routed call whose overload raised KeyError, which surfaced.
C6_Witness ==
    /\ last.op = "execute"
    /\ last.out = "KeyError"
    /\ last.impl \in Impls
    /\ last.called = <<last.impl>>

\* C7: every mutation of the entries leaves the table marked unordered.
C7_MutationUnorders ==
    (\/ last.op \in {"setitem", "update", "delitem", "func_delitem"}
            /\ last.out = "ok"
     \/ last.op = "setdefault" /\ last.path = "inserted"
     \/ last.op = "pop" /\ last.out = "ok" /\ last.path = NoDefault)
        => ~ordered

\* C8: table[key] = value on a registered signature replaces its
\* implementation in place: same signatures in the same order (no entry
\* added, no sort), the signature bound to the new value, every other entry
\* as before, the table unordered; a new signature is appended; a rejected
\* assignment leaves the entries unchanged.
C8_RegisterOverwrites ==
    [][last'.op = "setitem" =>
        IF last'.out = "ok"
        THEN /\ SigsOf(entries') =
                    IF HasKey(entries, last'.key)
                    THEN SigsOf(entries)
                    ELSE Append(SigsOf(entries), last'.key)
             /\ \A i \in 1..Len(entries') :
                    entries'[i].impl =
                        IF entries'[i].sig = last'.key
                        THEN last'.impl
                        ELSE entries[i].impl
             /\ ~ordered'
             /\ Callable(last'.impl)
        ELSE /\ entries' = entries
             /\ ~Callable(last'.impl) \/ last'.key \notin Keys
    ]_vars

\* C8 witness: an overwrite of a registered signature in a table of several
\* entries that was ordered before.
C8_Witness ==
    /\ last.op = "setitem"
    /\ last.path = "overwrite"
    /\ Len(entries) >= 2
    /\ entries[1].sig = last.key

\* C9: del table[key] and del func[key] delete the entry of an exactly equal
\* signature and nothing else; without one they raise KeyError and leave
\* every entry in place.
C9_RemoveExactOnly ==
    [][last'.op \in {"delitem", "func_delitem"} /\ last'.key \in Keys =>
        IF HasKey(entries, last'.key)
        THEN /\ last'.out = "ok"
             /\ entries' = SelectSeq(entries, LAMBDA e : e.sig # last'.key)
        ELSE /\ last'.out = "KeyError"
             /\ entries' = entries
    ]_vars

\* C9 witness: a removal refused although a registered supertype signature
\* contains the key.
C9_Witness ==
    /\ last.op \in {"delitem", "func_delitem"}
    /\ last.out = "KeyError"
    /\ last.key \in Keys
    /\ SomeMatch(last.key)

\* two registered signatures whose types contain each other
MutualPairRegistered ==
    \E i, j \in 1..Len(entries) :
        /\ i # j
        /\ supercedes(entries[i].sig, entries[j].sig)
        /\ supercedes(entries[j].sig, entries[i].sig)

\* C10 as stated: with two registered signatures whose types contain each
\* other, a lookup that has to sort raises the cyclic-signatures error.
C10_MutualTypesRaise ==
    (last.op = "getitem" /\ last.key \in Keys /\ ~HasKey(entries, last.key)
        /\ MutualPairRegistered)
        => last.out = "ValueError"

\* C10 amended: a lookup of a key that is not exactly registered raises the
\* cyclic-signatures error exactly when the edges over the registered
\* signatures contain a cycle; signatures whose types contain each other
\* have no edge between them and raise nothing by themselves.
C10_CycleDetection ==
    (last.op = "getitem" /\ last.key \in Keys /\ ~HasKey(entries, last.key))
        => /\ (last.out = "ValueError") <=> EdgesCyclic(Range(SigsOf(entries)))
           /\ last.out = "ValueError" => ~ordered /\ cache = <<>>

\* C10 witness: a lookup that raised the cyclic-signatures error.
C10_Witness ==
    /\ last.op = "getitem"
    /\ last.out = "ValueError"
    /\ Len(entries) = 3

\* the specifiers of a key as the caller wrote it, in order
Written(raw) == IF Len(raw) = 2 /\ raw[1] = BareTag THEN <<raw[2]>> ELSE raw

\* the types the written specifiers name, position by position
Named(raw) == [i \in 1..Len(Written(raw)) |-> resolve_type(Written(raw)[i])]

\* some written specifier names a composite type
NamesComposite(raw) == \E i \in 1..Len(Named(raw)) : IsComposite(Named(raw)[i])

\* C11: table[key] and table[key] = value resolve the key (a tuple, or a single
\* specifier taken as a 1-tuple) to the tuple of the types its specifiers
\* name, same length and same order; when any position names a composite type
\* the operation raises TypeError and entries, ordered flag and cache are
\* exactly as before.
C11_KeyResolution ==
    [][ (last = Idle /\ last'.op \in {"getitem", "setitem"}) =>
            IF NamesComposite(last'.raw)
            THEN /\ last'.out = "TypeError"
                 /\ UNCHANGED <<entries, ordered, cache>>
            ELSE /\ last'.key = Named(last'.raw)
                 /\ Len(last'.key) = Len(Written(last'.raw))
                 /\ (last'.op = "setitem" /\ last'.out = "ok")
                        => /\ HasKey(entries', Named(last'.raw))
                           /\ ValueOf(entries', Named(last'.raw)) = last'.impl
                 /\ (last'.op = "getitem" /\ HasKey(entries, Named(last'.raw)))
                        => last'.impl = ValueOf(entries, Named(last'.raw))
      ]_vars

\* C11 witness: a registration under a key whose second position is composite
\* (the first an alias) was rejected while the table held entries and a cached
\* lookup.
C11_Witness ==
    /\ last.op = "setitem"
    /\ last.raw = <<"int", CompositeSpec>>
    /\ last.impl \in Impls
    /\ last.out = "TypeError"
    /\ Len(entries) >= 2
    /\ ordered
    /\ cache # <<>>

\* a single specifier given by alias was registered as a 1-tuple of its type
C11_WitnessBare ==
    /\ last.op = "setitem"
    /\ last.raw = Bare("int")
    /\ last.out = "ok"
    /\ last.key = <<"Int">>
    /\ HasKey(entries, <<"Int">>)

\* the table a caller gets by registering the entries of the present table in
\* the order p (a permutation of their positions) and nothing else
RegisteredInOrder(p) ==
    [entries |-> [i \in 1..Len(entries) |-> entries[p[i]]],
     ordered |-> FALSE, cache |-> <<>>]

\* C12: in a table that is only registered into and looked up, the answer to
\* a lookup (the implementation returned, or the error raised) is the one a
\* table holding the same entries registered in any other order gives for the
\* same key, whatever lookups the table has served before.
C12_OrderIndependent ==
    \A key \in Keys :
        \A p \in Permutations(1..Len(entries)) :
            /\ getitem(RegisteredInOrder(p), key).impl
                    = getitem(Table, key).impl
            /\ getitem(RegisteredInOrder(p), key).out
                    = getitem(Table, key).out

\* the names of the implementation's parameters that the overload call a
\* gives specifiers for: positionally, in the order of the implementation's
\* parameters, or by keyword
Given(a) ==
    { a.params[i] : i \in { j \in 1..Len(a.pos) : j <= Len(a.params) } }
        \cup DOMAIN a.kw

\* the specifiers the overload call a gives for the parameter name
GivenTo(a, name) ==
    IF name \in DOMAIN a.kw THEN a.kw[name]
    ELSE a.pos[CHOOSE i \in 1..Len(a.params) : a.params[i] = name]

\* the types given for the i-th dispatched argument of the generic function
TypesFor(a, i) ==
    { resolve_type(spec) : spec \in Range(GivenTo(a, a.args[i])) }

\* every signature taking, at each position, one of the types given for the
\* dispatched argument of that position
CrossProduct(a) ==
    { sig \in Tuples(universe, Len(a.args)) :
        \A i \in 1..Len(a.args) : sig[i] \in TypesFor(a, i) }

\* n_1 x ... x n_i
RECURSIVE NumCombos(_, _)
NumCombos(a, i) ==
    IF i = 0 THEN 1 ELSE Cardinality(TypesFor(a, i)) * NumCombos(a, i - 1)

\* C13: an overload call that succeeds leaves every signature of the cross
\* product (one of the types given for the i-th dispatched argument of the
\* generic function at position i, however the specifiers were written:
\* positionally in the implementation's parameter order, or by keyword)
\* registered with the implementation; these are n_1 x ... x n_k signatures;
\* every other entry is an entry of before with its implementation, and no
\* entry of before is lost.
C13_CrossProduct ==
    [][ (last = Idle /\ last'.op = "overload" /\ last'.out = "ok") =>
            /\ \A sig \in CrossProduct(attempt') :
                /\ HasKey(entries', sig)
                /\ ValueOf(entries', sig) = attempt'.call
            /\ Cardinality(CrossProduct(attempt'))
                    = NumCombos(attempt', Len(attempt'.args))
            /\ \A i \in 1..Len(entries') :
                entries'[i].sig \notin CrossProduct(attempt')
                    => /\ HasKey(entries, entries'[i].sig)
                       /\ ValueOf(entries, entries'[i].sig) = entries'[i].impl
            /\ \A i \in 1..Len(entries) : HasKey(entries', entries[i].sig)
            /\ Len(entries')
                    = Len(entries)
                        + Cardinality({ sig \in CrossProduct(attempt') :
                                            ~HasKey(entries, sig) })
      ]_vars

\* C13 witness: the generic function dispatches on (x, y), the implementation
\* takes (y, x), two specifiers were written positionally, one of them naming
\* two types, and the table also holds an entry of another implementation.
C13_Witness ==
    /\ last.op = "overload"
    /\ last.out = "ok"
    /\ attempt.args = <<"x", "y">>
    /\ attempt.params = <<"y", "x">>
    /\ Len(attempt.pos) = 2
    /\ Len(attempt.pos[2]) = 2
    /\ Cardinality(CrossProduct(attempt)) = 2
    /\ \E i \in 1..Len(entries) :
        /\ entries[i].impl # attempt.call
        /\ entries[i].sig \notin CrossProduct(attempt)

\* the overload call a is malformed: the implementation lacks a dispatched
\* argument, a dispatched argument gets no specifier, or a parameter that is
\* not dispatched gets one
Malformed(a) ==
    \/ \E i \in 1..Len(a.args) : a.args[i] \notin Range(a.params)
    \/ \E i \in 1..Len(a.args) : a.args[i] \notin Given(a)
    \/ Given(a) \ Range(a.args) # {}

\* C14: @dispatch with no argument name, or with a name that is not a
\* parameter of the decorated function, raises TypeError and no generic
\* function (and no table) comes to exist; a malformed overload call raises
\* TypeError and leaves entries, ordered flag and cache as they were.
C14_MalformedRejected ==
    [][ last = Idle =>
            /\ (last'.op = "construct"
                    /\ (\/ attempt'.args = <<>>
                        \/ \E i \in 1..Len(attempt'.args) :
                                attempt'.args[i] \notin Range(WrappedParams)))
                  => /\ last'.out = "TypeError"
                     /\ ~dfunc'.made
                     /\ UNCHANGED <<entries, ordered, cache>>
            /\ (last'.op = "overload" /\ Malformed(attempt'))
                  => /\ last'.out = "TypeError"
                     /\ UNCHANGED <<entries, ordered, cache>>
      ]_vars

\* C14 witness: an overload giving specifiers for the dispatched argument and
\* for a parameter that is not dispatched was rejected while the table held
\* entries, was sorted and had a cached lookup.
C14_Witness ==
    /\ last.op = "overload"
    /\ last.out = "TypeError"
    /\ \A i \in 1..Len(attempt.args) :
        attempt.args[i] \in Range(attempt.params) \cap Given(attempt)
    /\ Given(attempt) \ Range(attempt.args) # {}
    /\ entries # <<>>
    /\ ordered
    /\ cache # <<>>

\* a construction that was rejected
C14_WitnessConstruct ==
    /\ last.op = "construct"
    /\ last.out = "TypeError"
    /\ attempt.args = <<"x", "w">>

\* thread t has started a call in this step
Called(t) == Len(stack'[t]) = Len(stack[t]) + 1

\* a call of thread t has ended in this step
Finished(t) ==
    \/ Len(stack'[t]) = Len(stack[t]) - 1
    \/ (outcome'.thread = t /\ outcome = NoOutcome /\ stack'[t] = stack[t])

\* C15: a call made by a thread that is inside a call of the generic function
\* takes the direct path, at any depth, and what it hands back is the
\* implementation's result as it is; a call made by a thread that is inside
\* no call is an outermost one, whose result is finalized; and when the
\* outermost call of a thread has ended, by return or by exception, the
\* thread's marker is false.
C15_MarkerProtocol ==
    [][ \A t \in Threads :
            /\ Called(t) =>
                  /\ stack[t] # <<>>
                        => stack'[t][Len(stack'[t])].path = "direct"
                  /\ stack[t] = <<>>
                        => stack'[t][Len(stack'[t])].path = "outer"
                  /\ flags'[t]
            /\ Finished(t) =>
                  /\ stack'[t] # <<>> =>
                        /\ outcome'.path = "direct"
                        /\ ~outcome'.value.finalized
                        /\ outcome'.out = "return"
                                => outcome'.value.by
                                        = stack[t][Len(stack[t])].impl
                        /\ flags'[t]
                  /\ stack'[t] = <<>> =>
                        /\ outcome'.path = "outer"
                        /\ outcome'.out = "return" => outcome'.value.finalized
                        /\ ~flags'[t]
      ]_vars

\* C15 witness: a thread is back in its outermost call after two nested calls
\* inside one another, the last of which ended by an exception.
C15_Witness ==
    /\ \E t \in Threads :
        /\ outcome.thread = t
        /\ outcome.path = "direct"
        /\ outcome.out = "raise"
        /\ Len(stack[t]) = 2
        /\ flags[t]

\* a thread's outermost call has ended by an exception propagating out of
\* its implementation and its marker is false
C15_WitnessRaised ==
    \E t \in Threads :
        /\ outcome.thread = t
        /\ outcome.path = "outer"
        /\ outcome.out = "raise"
        /\ outcome.value.by = None
        /\ stack[t] = <<>>
        /\ ~flags[t]

\* C16: whatever the other threads do, the first call executing on a thread
\* is an outermost one and every call nested in it is a direct one, and the
\* thread's marker is set exactly while it is inside a call.
C16_ThreadIsolation ==
    \A t \in Threads :
        /\ flags[t] <=> stack[t] # <<>>
        /\ stack[t] # <<>> =>
            /\ stack[t][1].path = "outer"
            /\ \A i \in 2..Len(stack[t]) : stack[t][i].path = "direct"

\* C16 witness: T2 has just ended an outermost call of its own, started while
\* T1 was inside its outermost call, and T1 is inside a nested call.
C16_Witness ==
    /\ outcome.thread = "T2"
    /\ outcome.path = "outer"
    /\ stack["T2"] = <<>>
    /\ Len(stack["T1"]) = 2
    /\ stack["T1"][2].path = "direct"
    /\ flags["T1"]

\* the vectors of the call in progress
BatchVectors == Vectors(batch.args)

\* the rows of the call in progress that remain once the rows holding a
\* missing value have been stripped (all of them when nothing is stripped)
Remaining ==
    { q \in 1..Len(batch.strategy.original_index.labels) :
        ~batch.drop_na
            \/ \A c \in 1..Len(BatchVectors) : BatchVectors[c].cells[q] # NA }

\* the types a column holds in the remaining rows
TypesIn(c) == { BatchVectors[c].cells[q] : q \in Remaining }

\* C17: the strategy built for an outermost call is the composite one when
\* some dispatched vector holds more than one type in the rows that remain
\* after the rows with missing values are stripped, and the homogenous one
\* otherwise.
C17_StrategySelection ==
    batch.stage = "built" =>
        /\ batch.strategy.kind \in {"composite", "homogenous"}
        /\ batch.strategy.kind = "composite"
                <=> \E c \in 1..Len(BatchVectors) : Cardinality(TypesIn(c)) > 1

\* C17 witness: of two vectors one is composite and the other is not, a row
\* was stripped, and the composite strategy was built.
C17_Witness ==
    /\ batch.stage = "built"
    /\ batch.strategy.kind = "composite"
    /\ batch.strategy.hasnans
    /\ Len(BatchVectors) = 2
    /\ Cardinality(TypesIn(1)) = 1
    /\ Cardinality(TypesIn(2)) = 2

\* the homogenous strategy was built although a vector holds two types: the
\* row holding the second one was stripped for a missing value in the other
\* vector
C17_WitnessStripped ==
    /\ batch.stage = "built"
    /\ batch.strategy.kind = "homogenous"
    /\ \E c \in 1..Len(BatchVectors) :
        Cardinality(Range(BatchVectors[c].cells) \ {NA}) = 2

\* the combination of types of the j-th remaining row (0-based position j)
Combination(j) ==
    [c \in 1..Len(BatchVectors) |->
        BatchVectors[c].cells[
            CHOOSE q \in Remaining :
                Cardinality({ r \in Remaining : r < q }) = j]]

NumRows == Len(batch.strategy.original_index.labels)

\* the label under which the implementation saw the q-th row of the call
SeenAs(q) == FrameLabels(batch.strategy.original_index)[q]

\* the implementation returned a value for the q-th row of the call
Returned(q) ==
    /\ SeenAs(q) \in Range(batch.strategy.index)
    /\ SeenAs(q) \in Range(batch.result.labels)

\* the value the implementation returned for the q-th row of the call
ValueFor(q) ==
    CHOOSE j \in 1..Len(batch.result.labels) :
        batch.result.labels[j] = SeenAs(q)

\* a homogenous transform has been finalized, and the implementation returned
\* rows of the batch only
TransformFinalized ==
    /\ batch.stage = "finalized"
    /\ batch.strategy.kind = "homogenous"
    /\ batch.result.kind = "series"
    /\ Range(batch.result.labels) \subseteq Range(batch.strategy.index)

\* C19: a homogenous batch of N rows without missing values whose
\* implementation returns the N rows of the batch is finalized into N rows
\* carrying the caller's labels in the caller's order, row i holding the
\* value the implementation returned for row i.
C19_TransformPreservesRows ==
    (/\ TransformFinalized
     /\ Len(batch.strategy.index) = NumRows
     /\ Len(batch.result.labels) = NumRows) =>
        /\ batch.final.out = "ok"
        /\ Len(batch.final.rows) = NumRows
        /\ \A q \in 1..NumRows :
            /\ batch.final.rows[q].label
                    = batch.strategy.original_index.labels[q]
            /\ ~batch.final.rows[q].na
            /\ batch.final.rows[q].val = ValueFor(q)

\* C20: when rows of the call are absent from the result of a homogenous
\* transform (stripped for a missing value, or left out by the
\* implementation), the finalized result has all the rows of the call under
\* the caller's labels, an absent row holding the missing value of the
\* nullable variant of the output type and a returned row holding the value
\* returned for it.
C20_MissingBackfill ==
    (/\ TransformFinalized
     /\ \E q \in 1..NumRows : ~Returned(q)) =>
        /\ batch.final.out = "ok"
        /\ Len(batch.final.rows) = NumRows
        /\ \A q \in 1..NumRows :
            /\ batch.final.rows[q].label
                    = batch.strategy.original_index.labels[q]
            /\ batch.final.rows[q].dtype = make_nullable(batch.result.otype)
            /\ IF Returned(q)
               THEN /\ ~batch.final.rows[q].na
                    /\ batch.final.rows[q].val = ValueFor(q)
               ELSE batch.final.rows[q].na

\* C27: a lookup under a key that is a stored signature returns the stored
\* implementation and leaves the ordered flag, the order of the entries and
\* the cache as they were, whatever the state of the table.
C27_ExactLookupFrame ==
    [][ (/\ last.op = "idle"
         /\ last'.op = "getitem"
         /\ resolve_key(last'.raw).ok
         /\ HasKey(entries, last'.key)) =>
            /\ last'.out = "ok"
            /\ last'.impl = ValueOf(entries, last'.key)
            /\ entries' = entries
            /\ ordered' = ordered
            /\ cache' = cache
      ]_vars

\* C27 witness: an exact match was returned from a table that is unordered
\* and still holds cached answers.
C27_Witness ==
    /\ last.op = "getitem"
    /\ last.path = "exact"
    /\ ~ordered
    /\ cache # <<>>
    /\ Len(entries) > 1

\* an exact match was returned from a table whose signatures are cyclic
C27_WitnessCyclic ==
    /\ last.op = "getitem"
    /\ last.path = "exact"
    /\ ~ordered
    /\ ~sort(entries).ok

\* the result of the implementation holds a row that is not a row of the
\* batch
IndexMismatch ==
    \E j \in 1..Len(batch.result.labels) :
        batch.result.labels[j] \notin Range(batch.strategy.index)

\* C22: when the result of a homogenous transform holds rows that are not
\* rows of the batch, finalize warns and still returns a result that has all
\* the rows of the call, instead of failing.
C22_MismatchWarned ==
    (/\ batch.stage = "finalized"
     /\ batch.strategy.kind = "homogenous"
     /\ batch.result.kind = "series"
     /\ IndexMismatch) =>
        /\ batch.final.warned
        /\ batch.final.out = "ok"
        /\ Len(batch.final.rows) = NumRows

\* the groups of the call in progress
Groups == batch.strategy.groups

\* the labels under which the implementation of group g saw its rows
OwnLabels(g) == GroupIndex(batch.strategy, Groups[g])

\* the value the implementation of a group returned for the row it saw under
\* the label l, when it returned that row
GroupValueFor(l) ==
    CHOOSE v \in { <<g, j>> : g \in 1..Len(Groups), j \in 1..MaxRows } :
        /\ l \in Range(OwnLabels(v[1]))
        /\ v[2] <= Len(batch.computed[v[1]].labels)
        /\ batch.computed[v[1]].labels[v[2]] = l

\* a composite call has been finalized
CompositeFinalized ==
    /\ batch.stage = "finalized"
    /\ batch.strategy.kind = "composite"

\* every group returned a Series
AllVectors ==
    \A g \in 1..Len(batch.computed) : batch.computed[g].kind = "series"

\* every group returned a Series of just its own rows, in their order
OwnRowsReturned ==
    /\ AllVectors
    /\ \A g \in 1..Len(batch.computed) :
        batch.computed[g].labels = OwnLabels(g)

\* the rows of some two groups interleave
Interleaved ==
    \E g, h \in 1..Len(Groups) :
        /\ g < h
        /\ \E i \in Range(Groups[g].rows), j \in Range(Groups[h].rows) : i > j

\* C21: when no row was stripped, every group of a composite call returns
\* its own rows in their order and the results are of one type (as returned or after
\* standardization), the finalized result has one row per row of the call,
\* under the caller's labels in the caller's order, and each row holds the
\* value returned for it.
C21_CompositeOrder ==
    (/\ CompositeFinalized
     /\ OwnRowsReturned
     /\ Len(batch.strategy.index) = NumRows
     /\ Cardinality(batch.merged.observed) = 1) =>
        /\ batch.merged.out = "ok"
        /\ Len(batch.merged.rows) = NumRows
        /\ \A q \in 1..NumRows :
            /\ batch.merged.rows[q].label
                    = batch.strategy.original_index.labels[q]
            /\ ~batch.merged.rows[q].na
            /\ batch.merged.rows[q].val = GroupValueFor(SeenAs(q))

\* C23: when one group of a composite call returns a Series and another a
\* scalar, finalize fails with the mode conflict error and nothing is
\* merged.
C23_ModeConflict ==
    (/\ CompositeFinalized
     /\ \E g \in 1..Len(batch.computed) : batch.computed[g].kind = "series"
     /\ \E g \in 1..Len(batch.computed) : batch.computed[g].kind = "scalar")
        => /\ batch.merged.out = "ModeConflict"
           /\ batch.merged.rows = <<>>

\* C24: when every group of a composite call returns a scalar, the
\* finalized result is a frame of one row per group, in the order of the
\* groups, each row holding the types of its group and what its group
\* returned; the groups being of distinct types, there are as many rows as
\* combinations of types.
C24_CompositeAggregate ==
    (/\ CompositeFinalized
     /\ \A g \in 1..Len(batch.computed) : batch.computed[g].kind = "scalar")
        => /\ batch.merged.out = "ok"
           /\ batch.merged.kind = "frame"
           /\ Len(batch.merged.rows) = Len(Groups)
           /\ \A g \in 1..Len(Groups) :
                /\ batch.merged.rows[g].key = Groups[g].key
                /\ batch.merged.rows[g].val = <<g, 0>>
                /\ batch.merged.rows[g].holds = "scalar"
           /\ Len(batch.merged.rows)
                = Cardinality({ Groups[g].key : g \in 1..Len(Groups) })

\* C24 witness: two groups that differ in the type of the second vector
\* only have returned scalars, and the frame has two rows.
C24_Witness ==
    /\ CompositeFinalized
    /\ Len(Groups) = 2
    /\ Groups[1].key[1] = Groups[2].key[1]
    /\ Groups[1].key[2] # Groups[2].key[2]
    /\ \A g \in 1..2 : batch.computed[g].kind = "scalar"
    /\ Len(batch.merged.rows) = 2
    /\ batch.merged.kind = "frame"

\* the labels of the rows of the groups that did not return None, under the
\* caller's index
LabelsKept ==
    { batch.strategy.original_index.labels[q] :
        q \in { r \in 1..NumRows :
                    \E g \in 1..Len(Groups) :
                        /\ batch.computed[g].kind # "none"
                        /\ SeenAs(r) \in Range(OwnLabels(g)) } }

\* C25: when the implementation of one group of a composite call returns
\* None and the others return their rows, the finalized result is a Series
\* holding the rows of the other groups only: the rows of the filtered group
\* are not in it, not even as missing values.
C25_FilterExcludes ==
    (/\ CompositeFinalized
     /\ Len(batch.strategy.index) = NumRows
     /\ \E g \in 1..Len(batch.computed) : batch.computed[g].kind = "none"
     /\ \E g \in 1..Len(batch.computed) : batch.computed[g].kind = "series"
     /\ \A g \in 1..Len(batch.computed) :
            \/ batch.computed[g].kind = "none"
            \/ /\ batch.computed[g].kind = "series"
               /\ batch.computed[g].labels = OwnLabels(g))
        => /\ batch.merged.out = "ok"
           /\ batch.merged.kind = "series"
           /\ { batch.merged.rows[q].label :
                    q \in 1..Len(batch.merged.rows) } = LabelsKept
           /\ \A q \in 1..Len(batch.merged.rows) : ~batch.merged.rows[q].na

\* the types of the results as the groups returned them
Observed == { batch.computed[g].otype : g \in 1..Len(batch.computed) }

\* a standardization of the results of the call was attempted
Standardizing ==
    /\ CompositeFinalized
    /\ AllVectors
    /\ batch.merged.tried # <<>>

\* C26: the types a standardization tries are observed types of the largest
\* max - min, tried in increasing |min + max| (so int8 before uint8), none
\* left out before a type that was tried, and a type is tried only after the
\* cast to every type before it failed; the first type whose cast succeeds
\* becomes the type of all results, and when every cast fails the types are
\* as observed.
C26_TargetSelection ==
    Standardizing =>
        LET tried == batch.merged.tried
            latest == tried[Len(tried)]
            Wide(t) == OutTypes[t].max - OutTypes[t].min
            Off(t) == IF OutTypes[t].min + OutTypes[t].max >= 0
                      THEN OutTypes[t].min + OutTypes[t].max
                      ELSE -(OutTypes[t].min + OutTypes[t].max)
            widest == { t \in Observed : \A u \in Observed : Wide(u) <= Wide(t) }
        IN  /\ Range(tried) \subseteq widest
            /\ \A i, j \in 1..Len(tried) :
                    i < j => /\ tried[i] # tried[j]
                             /\ Off(tried[i]) <= Off(tried[j])
                             /\ tried[i] \in batch.fails
            /\ \A t \in widest \ Range(tried) :
                    /\ latest \notin batch.fails
                    /\ Off(latest) <= Off(t)
            /\ ("int8" \in Range(tried) /\ "uint8" \in Range(tried))
                    => tried = <<"int8", "uint8">>
            /\ batch.merged.observed
                    = IF latest \in batch.fails THEN Observed ELSE {latest}

\* C26 witness: int8 and uint8 were observed; the cast to int8 failed, the
\* cast to uint8 was tried next and succeeded.
C26_Witness ==
    /\ Standardizing
    /\ Observed = {"int8", "uint8"}
    /\ batch.merged.tried = <<"int8", "uint8">>
    /\ batch.merged.observed = {"uint8"}

\* int16 was observed next to uint8 and is the only type tried; its cast
\* failed and the results stay mixed
C26_WitnessWidest ==
    /\ Standardizing
    /\ Observed = {"uint8", "int16"}
    /\ batch.merged.tried = <<"int16">>
    /\ batch.merged.observed = Observed

\* ------------------------------------------------------------------------
\* C28
\* ------------------------------------------------------------------------

\* what thread u reads of the argument and what a call in u hands to the
\* function are the same in e and in f
SameView(e, f, u) ==
    /\ e.inst[u].vals = f.inst[u].vals
    /\ e.inst[u].defaults = f.inst[u].defaults
    /\ \A n \in Names :
        /\ getter(e, u, n).out = getter(f, u, n).out
        /\ getter(e, u, n).value = getter(f, u, n).value
    /\ \A p \in Passed :
        /\ ext_call(e, u, p).out = ext_call(f, u, p).out
        /\ ext_call(e, u, p).value = ext_call(f, u, p).value

C28_WitnessFirstUse ==
    /\ used.op = "first_use"
    /\ used.out = "ok"
    /\ \E n \in Names :
        /\ used.before.inst[MainThread].vals[n] # Absent
        /\ ext.inst[used.thread].vals[n] = used.before.inst[MainThread].vals[n]

\* ------------------------------------------------------------------------
\* C29
\* ------------------------------------------------------------------------

\* every argument thread t manages has its property on the class, as it has
\* as long as no thread has removed an argument that another one manages
Intact(e, t) == \A n \in Range(e.inst[t].validators) : n \in e.props

\* the names whose assigned values an operation of deletion is to remove
Deleted(e, t, op, names) ==
    IF op = "reset_defaults" /\ names = <<>>
    THEN Range(e.inst[t].validators)
    ELSE Range(names)

\* the value a call is to use for the managed argument n
ValueUsed(e, t, passed, n) ==
    IF passed[n] # Absent THEN validator(passed[n]).val
    ELSE IF e.inst[t].vals[n] # Absent THEN e.inst[t].vals[n]
    ELSE IF e.inst[t].defaults[n] # Absent THEN e.inst[t].defaults[n]
    ELSE e.sig[n]

\* C29: the value of a managed argument is resolved in the order passed,
\* assigned, default.  A call that returns has used, for every argument its
\* thread manages, the passed value if one was passed, else the assigned
\* value, else the registered or signature default.  After the deletion of
\* the attribute or reset_defaults on managed arguments, these arguments
\* hold no assigned value, the getter returns their default or raises when
\* there is none, and the defaults and validators are what they were.  An
\* assignment whose validator raises changes nothing.
C29_ValueResolution ==
    IF used.op \in {"call", "del", "reset_defaults", "set"}
            /\ Intact(used.before, used.thread)
    THEN LET t == used.thread
             b == used.before
             names == Deleted(b, t, used.op, used.names)
         IN  /\ (used.op = "call" /\ used.out = "ok") =>
                    \A n \in Range(b.inst[t].validators) :
                        used.value[n] = ValueUsed(b, t, used.given, n)
             /\ (/\ used.op \in {"del", "reset_defaults"}
                 /\ \A n \in names : Managed(b, t, n)) =>
                    /\ \A n \in names :
                        /\ ext.inst[t].vals[n] = Absent
                        /\ getter(ext, t, n).value = b.inst[t].defaults[n]
                        /\ getter(ext, t, n).out =
                                IF b.inst[t].defaults[n] = Absent
                                THEN "AttributeError" ELSE "ok"
                    /\ \A n \in Names \ names :
                            ext.inst[t].vals[n] = b.inst[t].vals[n]
                    /\ ext.inst[t].defaults = b.inst[t].defaults
                    /\ ext.inst[t].validators = b.inst[t].validators
             /\ (used.op = "set" /\ used.out # "ok") => ext = b
    ELSE TRUE

\* ------------------------------------------------------------------------
\* C30
\* ------------------------------------------------------------------------

\* C30: the structural changes of an ExtensionFunc fail without effect.
\* remove_arg with a name its thread does not manage raises AttributeError
\* and removes none of the names; register_arg raises KeyError for a name
\* its thread manages already and the validator's error for a default the
\* validator rejects; after each of these errors the validators, defaults,
\* assigned values and properties are what they were.
C30_StructuralAtomic ==
    /\ (/\ used.op = "remove_arg"
        /\ \E n \in Range(used.names) : ~Managed(used.before, used.thread, n))
        => (used.out = "AttributeError" /\ ext = used.before)
    /\ (/\ used.op = "register_arg"
        /\ \E n \in Range(used.names) : Managed(used.before, used.thread, n))
        => (used.out = "KeyError" /\ ext = used.before)
    /\ (/\ used.op = "register_arg"
        /\ \E n \in Range(used.names) :
            /\ ~Managed(used.before, used.thread, n)
            /\ used.given[n] # no_default
            /\ ~validator(used.given[n]).ok)
        => (used.out = "ValueError" /\ ext = used.before)

\* C30 witness: remove_arg is given a managed name that holds an assigned
\* value, followed by a name that is not managed
C30_Witness ==
    /\ used.op = "remove_arg"
    /\ used.out = "AttributeError"
    /\ Len(used.names) = 2
    /\ Managed(ext, used.thread, used.names[1])
    /\ used.names[1] \in ext.props
    /\ ext.inst[used.thread].vals[used.names[1]] # Absent
    /\ ~Managed(used.before, used.thread, used.names[2])

\* C30 witness: register_arg is given a default the validator rejects, for
\* a name that has a default in the signature
C30_WitnessDefault ==
    /\ used.op = "register_arg"
    /\ used.out = "ValueError"
    /\ \E n \in Range(used.names) :
        /\ ext.sig[n] # Absent
        /\ ext.inst[used.thread].defaults[n] = Absent
        /\ ~Managed(ext, used.thread, n)

\* C30 witness: register_arg is given a name its thread manages already,
\* with another default than the one it holds
C30_WitnessManaged ==
    /\ used.op = "register_arg"
    /\ used.out = "KeyError"
    /\ \E n \in Range(used.names) :
        /\ used.given[n] = "s2"
        /\ ext.inst[used.thread].defaults[n] # "v2"

\* ------------------------------------------------------------------------
\* C31
\* ------------------------------------------------------------------------

\* contains() is reflexive on the free types
Reflexive == \A x \in FreeTypes : contains(x, x)

\* contains() is transitive on the free types
Transitive ==
    \A x, y, z \in FreeTypes :
        (contains(x, y) /\ contains(y, z)) => contains(x, z)

\* no two free types contain each other
Antisymmetric ==
    \A x, y \in FreeTypes : (contains(x, y) /\ contains(y, x)) => x = y

\* contains() is a partial order on the free types
PartialOrder == Reflexive /\ Transitive /\ Antisymmetric

\* the first position at which two different signatures of one length differ
FirstDifference(a, b) ==
    CHOOSE i \in 1..Len(a) : a[i] # b[i] /\ \A j \in 1..(i - 1) : a[j] = b[j]

\* x contains y and is another type
StrictlyContains(x, y) == contains(x, y) /\ x # y

\* C31: over a hierarchy that is a partial order, edge(A, B) for signatures
\* of one length holds exactly when A and B differ and, at the first
\* position where they do, the type of B strictly contains the type of A;
\* it is false when either signature is empty.
C31_FirstDifference ==
    (order.op = "edge" /\ PartialOrder) =>
        LET a == order.sigs[1]
            b == order.sigs[2]
        IN  order.forward <=>
                /\ a # <<>>
                /\ Len(a) = Len(b)
                /\ a # b
                /\ StrictlyContains(b[FirstDifference(a, b)],
                                    a[FirstDifference(a, b)])

\* C31 witness: the type of B strictly contains the type of A at the first
\* position and the type of A strictly contains the type of B at the second
C31_Witness ==
    /\ order.op = "edge"
    /\ PartialOrder
    /\ Len(order.sigs[1]) = 2
    /\ Len(order.sigs[2]) = 2
    /\ StrictlyContains(order.sigs[2][1], order.sigs[1][1])
    /\ StrictlyContains(order.sigs[1][2], order.sigs[2][2])
    /\ order.forward

\* C31 witness: the types at the first position are incomparable and the
\* type of B strictly contains the type of A at the second
C31_WitnessIncomparable ==
    /\ order.op = "edge"
    /\ PartialOrder
    /\ Len(order.sigs[1]) = 2
    /\ Len(order.sigs[2]) = 2
    /\ ~contains(order.sigs[2][1], order.sigs[1][1])
    /\ ~contains(order.sigs[1][1], order.sigs[2][1])
    /\ StrictlyContains(order.sigs[2][2], order.sigs[1][2])
    /\ ~order.forward

\* C31 witness: one of the signatures is empty and the other is not
C31_WitnessEmpty ==
    /\ order.op = "edge"
    /\ PartialOrder
    /\ order.sigs[1] = <<>>
    /\ order.sigs[2] # <<>>
    /\ ~order.forward

\* ------------------------------------------------------------------------
\* C32
\* ------------------------------------------------------------------------

\* C32: whatever relation contains() is, edge is irreflexive and asymmetric
\* on signatures of one length: edge(A, A) is false and edge(A, B) and
\* edge(B, A) do not both hold, so that among the signatures that sort puts
\* in its graph none has an edge to itself and no two have edges both ways.
C32_Asymmetric ==
    /\ (order.op = "edge" /\ Len(order.sigs[1]) = Len(order.sigs[2])) =>
            /\ ~(order.forward /\ order.backward)
            /\ order.sigs[1] = order.sigs[2] => ~order.forward
    /\ order.op = "sort" =>
            \A a, b \in Range(order.sigs) :
                /\ ~edge(a, a)
                /\ ~(edge(a, b) /\ edge(b, a))

\* C32 witness: edge holds one way between two signatures over a hierarchy
\* that is neither reflexive nor transitive and in which two types contain
\* each other
C32_Witness ==
    /\ order.op = "edge"
    /\ Len(order.sigs[1]) = 2
    /\ Len(order.sigs[2]) = 2
    /\ order.forward
    /\ ~Reflexive
    /\ ~Transitive
    /\ ~Antisymmetric
    /\ contains(order.sigs[1][1], order.sigs[2][1])
    /\ contains(order.sigs[2][1], order.sigs[1][1])
    /\ order.sigs[1][1] # order.sigs[2][1]

\* C32 witness: sort is given three signatures over such a hierarchy, with
\* an edge between two of them
C32_WitnessSort ==
    /\ order.op = "sort"
    /\ Len(order.sigs) = 3
    /\ ~Reflexive
    /\ ~Transitive
    /\ ~Antisymmetric
    /\ \E a, b \in Range(order.sigs) : edge(a, b)

\* ------------------------------------------------------------------------
\* C33
\* ------------------------------------------------------------------------

\* C33: when contains() is reflexive and transitive, sort succeeds on every
\* table of signatures of one length: no cycle is reported and the order it
\* leaves holds every signature of the table exactly once.
C33_PreorderAcyclic ==
    (order.op = "sort" /\ Reflexive /\ Transitive) =>
        /\ order.ok
        /\ Len(order.result) = Len(order.sigs)
        /\ Range(order.result) = Range(order.sigs)

\* C33 witness: three signatures of two types each are sorted into another
\* order, over a reflexive and transitive hierarchy in which two types
\* contain each other
C33_Witness ==
    /\ order.op = "sort"
    /\ Reflexive
    /\ Transitive
    /\ ~Antisymmetric
    /\ Len(order.sigs) = 3
    /\ Len(order.sigs[1]) = 2
    /\ order.ok
    /\ order.result # order.sigs
    /\ \E a, b, c \in Range(order.sigs) : edge(a, b) /\ edge(b, c)

\* C33 witness: over a hierarchy that is not transitive, sort reports a cycle
C33_WitnessCycle ==
    /\ order.op = "sort"
    /\ Reflexive
    /\ ~Transitive
    /\ ~order.ok

\* ------------------------------------------------------------------------
\* C34
\* ------------------------------------------------------------------------

\* the table is unordered and a sort of it would find a cycle
CycleWaiting == ~ordered /\ ~sort(entries).ok

\* C34: an operation that ends with the cyclic-signatures error leaves the
\* entries in the order they were in, the table unordered and the cache
\* empty.  While the table is unordered with cyclic signatures, the lookup
\* of a key that is not registered raises that error and the lookup of a
\* registered key returns its implementation, and the table stays so for as
\* long as the set of its signatures is the same.
C34_CycleRaisesAgain ==
    [][/\ last'.out = "ValueError" =>
            /\ entries' = entries
            /\ ~ordered'
            /\ cache' = <<>>
       /\ CycleWaiting =>
            /\ \A key \in Keys :
                IF HasKey(entries, key)
                THEN /\ getitem(Table, key).out = "ok"
                     /\ getitem(Table, key).impl = ValueOf(entries, key)
                     /\ getitem(Table, key).d = Table
                ELSE /\ getitem(Table, key).out = "ValueError"
                     /\ getitem(Table, key).d.entries = entries
            /\ Range(SigsOf(entries')) = Range(SigsOf(entries)) =>
                    (~ordered' /\ ~sort(entries').ok)
    ]_vars

\* C34 witness: a lookup has raised the cyclic-signatures error on a table
\* that holds three signatures
C34_Witness ==
    /\ last.op \in {"getitem", "func_getitem", "execute"}
    /\ last.out = "ValueError"
    /\ Len(entries) = 3
    /\ CycleWaiting
    /\ cache = <<>>

\* C34 witness: a registered key is looked up while a cycle is waiting
C34_WitnessExact ==
    /\ last.op \in {"getitem", "func_getitem", "execute"}
    /\ last.path = "exact"
    /\ CycleWaiting

\* ------------------------------------------------------------------------
\* C35
\* ------------------------------------------------------------------------

\* the registered signatures, each with the implementation bound to it
Bindings(e) == { <<e[i].sig, e[i].impl>> : i \in 1..Len(e) }

\* C35: table[key], func[key], key in table and table.get(key) add, remove
\* and rebind no entry, whatever their outcome: the signatures and the
\* implementation bound to each are the same before and after.  On an
\* ordered table they leave the order of the entries and the flag as they
\* are too, and change at most the cache.
C35_LookupFrame ==
    [][last'.op \in {"getitem", "func_getitem", "contains", "get"} =>
        /\ Bindings(entries') = Bindings(entries)
        /\ Len(entries') = Len(entries)
        /\ ordered => (entries' = entries /\ ordered')
    ]_vars

\* C35 witness: a membership test has scanned a table of two or more
\* entries, which it left ordered, and cached what it found
C35_Witness ==
    /\ last.op = "contains"
    /\ last.path = "scan"
    /\ last.impl = "True"
    /\ Len(entries) >= 2
    /\ ordered
    /\ CacheHas(cache, last.key)

\* C35 witness: get has returned the default for a key that no registered
\* signature contains
C35_WitnessDefault ==
    /\ last.op = "get"
    /\ last.path = "default"
    /\ last.key \in Keys
    /\ entries # <<>>
    /\ ~HasKey(entries, last.key)

\* C35 witness: a lookup has failed with a cycle
C35_WitnessCycle ==
    /\ last.op \in {"contains", "get"}
    /\ last.out = "ValueError"
    /\ Len(entries) = 3

\* ------------------------------------------------------------------------
\* C38
\* ------------------------------------------------------------------------

\* pop has removed the entry of the key and returned its implementation
PoppedExact ==
    /\ last'.out = "ok"
    /\ last'.impl = ValueOf(entries, last'.key)
    /\ Bindings(entries') =
            Bindings(entries) \ {<<last'.key, ValueOf(entries, last'.key)>>}
    /\ Len(entries') = Len(entries) - 1

\* pop has removed nothing and has raised KeyError or returned its default
PoppedNothing ==
    /\ Bindings(entries') = Bindings(entries)
    /\ Len(entries') = Len(entries)
    /\ IF last'.path = NoDefault
       THEN last'.out = "KeyError"
       ELSE last'.out = "ok" /\ last'.impl = last'.path

\* C38 as stated: pop(key) removes the entry of a registered key and returns
\* its implementation; for a key that is not registered it removes nothing
\* and raises KeyError, or returns the default it was given.
C38_PopAsStated ==
    [][(last'.op = "pop" /\ last'.key \in Keys) =>
        IF HasKey(entries, last'.key) THEN PoppedExact ELSE PoppedNothing
    ]_vars

\* C38: pop(key) removes the entry of a registered key and returns its
\* implementation.  For a key that is not registered it removes nothing; it
\* raises KeyError or returns the default it was given, unless the table is
\* unordered with cyclic signatures: the lookup that pop begins with then
\* raises the cyclic-signatures error, with or without a default.
C38_PopExactOnly ==
    [][(last'.op = "pop" /\ last'.key \in Keys) =>
        IF HasKey(entries, last'.key)
        THEN PoppedExact
        ELSE IF CycleWaiting
        THEN /\ last'.out = "ValueError"
             /\ entries' = entries
        ELSE PoppedNothing
    ]_vars

\* C38 witness: pop has raised KeyError for a key that a registered
\* signature contains
C38_Witness ==
    /\ last.op = "pop"
    /\ last.key \in Keys
    /\ last.out = "KeyError"
    /\ last.path = NoDefault
    /\ SomeMatch(last.key)

\* C38 witness: pop with a default has raised the cyclic-signatures error
C38_WitnessCycle ==
    /\ last.op = "pop"
    /\ last.key \in Keys
    /\ last.out = "ValueError"
    /\ last.path # NoDefault
    /\ CycleWaiting

\* ------------------------------------------------------------------------
\* C36
\* ------------------------------------------------------------------------

\* what finalize of the strategy of the call has returned or raised
Finalized ==
    IF batch.strategy.kind = "homogenous"
    THEN [out |-> batch.final.out, kind |-> batch.final.kind,
          rows |-> batch.final.rows]
    ELSE [out |-> batch.merged.out, kind |-> batch.merged.kind,
          rows |-> batch.merged.rows]

\* finalize has returned a vector without raising
VectorReturned ==
    /\ batch.stage = "finalized"
    /\ Finalized.out = "ok"
    /\ Finalized.kind = "series"

\* rows of the call were dropped as missing before the implementations ran
RowsDropped == Len(batch.strategy.index) < NumRows

\* C36: whenever finalize of the homogenous or of the composite strategy
\* returns a vector without raising, the vector has as many rows as the
\* caller's input and carries the caller's original index, label by label,
\* whether or not rows were dropped as missing or left out by an
\* implementation
C36_OriginalIndex ==
    VectorReturned =>
        /\ Len(Finalized.rows) = NumRows
        /\ \A q \in 1..NumRows :
            Finalized.rows[q].label = batch.strategy.original_index.labels[q]

\* a homogenous call on an index that is not the default one, with a row
\* dropped as missing and a row that the implementation has left out
C36_Witness ==
    /\ VectorReturned
    /\ batch.strategy.kind = "homogenous"
    /\ ~batch.strategy.original_index.range
    /\ RowsDropped
    /\ Len(batch.result.labels) < Len(batch.strategy.index)

\* a composite call on an index that is not the default one, with a row
\* dropped as missing and a row that an implementation has left out
C36_WitnessComposite ==
    /\ VectorReturned
    /\ batch.strategy.kind = "composite"
    /\ ~batch.strategy.original_index.range
    /\ RowsDropped
    /\ \E g \in 1..Len(batch.computed) :
        Len(batch.computed[g].labels) < Len(OwnLabels(g))

\* ------------------------------------------------------------------------
\* C37
\* ------------------------------------------------------------------------

\* every group of a finalized composite call returned a Series, and the
\* results are of several types still when they are merged
MixedRemain ==
    /\ CompositeFinalized
    /\ AllVectors
    /\ Cardinality(batch.merged.observed) > 1

\* every group returned rows of its own only
OwnRowsOnly ==
    \A g \in 1..Len(batch.computed) :
        Range(batch.computed[g].labels) \subseteq Range(OwnLabels(g))

\* some group returned a value for the q-th row of the call
Produced(q) ==
    \E g \in 1..Len(batch.computed) :
        /\ SeenAs(q) \in Range(OwnLabels(g))
        /\ SeenAs(q) \in Range(batch.computed[g].labels)

\* C37: when the results of the groups of a composite transform remain of
\* mixed types (no standardization, no common family, or every cast
\* failing), a standardization that was attempted leaves the results as the
\* implementations returned them, and the results are folded into an
\* untyped Series of one row per row of the call: a row that a group
\* produced holds the value of that group, a row that no group produced
\* holds the missing marker.
C37_MixedFold ==
    (MixedRemain /\ OwnRowsOnly) =>
        /\ batch.merged.tried # <<>> =>
                standardize_same_family(batch.computed, Observed,
                                        batch.fails).computed
                    = batch.computed
        /\ batch.merged.out = "ok"
        /\ batch.merged.kind = "series"
        /\ Len(batch.merged.rows) = NumRows
        /\ \A q \in 1..NumRows :
            /\ batch.merged.rows[q].dtype = ObjectType
            /\ IF Produced(q)
               THEN /\ ~batch.merged.rows[q].na
                    /\ batch.merged.rows[q].val = GroupValueFor(SeenAs(q))
               ELSE batch.merged.rows[q].na

\* ------------------------------------------------------------------------
\* C39
\* ------------------------------------------------------------------------

\* thread u manages the same arguments in e and in f, with the same assigned
\* values and defaults, and a call in u hands the same values to the function
SameArguments(e, f, u) ==
    /\ e.inst[u] = f.inst[u]
    /\ \A n \in Names : Managed(e, u, n) = Managed(f, u, n)
    /\ \A p \in Passed :
        /\ ext_call(e, u, p).out = ext_call(f, u, p).out
        /\ ext_call(e, u, p).value = ext_call(f, u, p).value

\* foo.name, foo.name = val and del foo.name in thread u end the same way in
\* e and in f; an assignment with and without a property are not the same
SameAccess(e, f, u) ==
    \A n \in Names :
        /\ getter(e, u, n).out = getter(f, u, n).out
        /\ getter(e, u, n).value = getter(f, u, n).value
        /\ (n \in e.props) = (n \in f.props)
        /\ \A v \in Inputs : setter(e, u, n, v).out = setter(f, u, n, v).out
        /\ delattr(e, u, n).out = delattr(f, u, n).out

\* C39: after a thread calls register_arg or remove_arg, every other thread
\* that uses the object has the managed arguments it had, the getter, setter
\* and deleter of every argument behave in it as they did, and a call in it
\* gives the result it gave.
C39_StructuralIsolation ==
    used.op \in {"register_arg", "remove_arg"} =>
        \A u \in Threads \ {used.thread} :
            used.before.inst[u].inited =>
                /\ SameArguments(ext, used.before, u)
                /\ SameAccess(ext, used.before, u)
====
